---- MODULE Spec2Model ----
(***************************************************************************)
(* Model of gamdl's Telegram bot (src/gamdl/telegram_bot/bot.py): the      *)
(* session store, the callback handlers (cancel, back, choose preset,      *)
(* start), the download semaphore and the streaming job runner.            *)
(*                                                                         *)
(* Handlers are asyncio coroutines.  Each action below is one synchronous  *)
(* segment of a handler: the code between two awaits, together with the    *)
(* effect of the awaited call that ends the segment.  Handlers of          *)
(* different updates interleave at their awaits: this is the scheduling    *)
(* that DOWNLOAD_SEMAPHORE (line 118) is there for.                        *)
(*                                                                         *)
(* Further specifications follow one piece of the program each: SpecStream *)
(* the line loop of _run_gamdl_stream with its throttle, SpecJob one start *)
(* handler from the exit of its job through the delivery to its end,       *)
(* SpecChunk the generator _chunked, SpecLock the processes of one host    *)
(* around single_instance_lock, SpecSweep one call of cleanup_temp_dirs,    *)
(* SpecTail the rolling tail and the result of _run_gamdl_stream, SpecDb    *)
(* the database module (db.py) with the calls the bot makes to it, SpecZip  *)
(* one call of _zip_directory, SpecCover the choice of the shared           *)
(* thumbnail, SpecFlow the start handlers with their workspaces and         *)
(* archives under OUTPUT_ROOT and the periodic cleanup, SpecFlowLive the    *)
(* same under a fair event loop.                                            *)
(***************************************************************************)
EXTENDS Integers, Sequences, FiniteSets, TLC

\* ---- bounds of the model ------------------------------------------------
NumTokens == 2      \* sessions created by handle_message
MaxHandlers == 2    \* callback queries handled
MaxCapacity == 2    \* largest CONCURRENCY value tried
MaxFaults == 1      \* telegram / subprocess calls that raise (not BadRequest)
MaxProgress == 1    \* progress updates admitted per job
MaxLines == 4       \* output lines of one subprocess (stream specification)
MaxGap == 3         \* largest clock advance between two lines, in seconds
MaxStartClock == 3  \* largest monotonic clock value at throttle creation
MaxOut == 52        \* output lines of the subprocess (job specification)
MaxAudio == 11      \* audio files in the workspace
MaxBigAudio == 1    \* audio files at the size ceiling
MaxVideo == 1       \* video files in the workspace
MaxOther == 1       \* other files in the workspace
MaxItems == 25      \* length of the list given to _chunked (chunk specification)
NumProcs == 2       \* processes started on the host (lock specification)
MaxStarts == 2      \* times one process is started
MaxEntries == 3     \* children of the base directory (sweep specification)
MaxDbErrors == 2    \* database calls that raise (persistence specification)
MaxTicks == 1       \* advances of the wall clock (flow specification)

\* ---- program constants --------------------------------------------------
ThrottleInterval == 2   \* _Throttle(2.0)
\* MAX_TELEGRAM_FILE_BYTES = 2 * 1024 * 1024 * 1024, counted in KiB as are all
\* the file sizes of the model (TLC's integers end at 2^31 - 1)
MAX_TELEGRAM_FILE_KIB == 2097152
ChunkSize == 10         \* _chunked(audio_files, 10)
TailKeep == 50          \* buf_tail[-50:]
TailShow == 10          \* buf_tail[-10:]
SecondsPerHour == 3600  \* ttl_hours * 3600.0
TEMP_TTL_HOURS == 24    \* os.getenv("TEMP_TTL_HOURS", "24")

Tokens == 1..NumTokens
Handlers == 1..MaxHandlers
\* Two of the four keys of PRESETS; the handlers treat every key alike.
PresetIds == {"default", "video_4k"}
Modes == {"files", "zip"}

VARIABLES
    CONCURRENCY,         \* configured capacity of the semaphore
    DOWNLOAD_SEMAPHORE,  \* free slots of asyncio.Semaphore(CONCURRENCY)
    sessions,            \* keys of context.bot_data["sessions"]
    sess,                \* the session dict objects, by token
    msgpc,               \* position of handle_message, by token
    kb,                  \* inline keyboard shown under the token's message
    hd,                  \* callback handlers: position and locals
    statusMsg,           \* status messages in the chat, by creating handler
    launches,            \* subprocesses created, by token
    staleWrites,         \* session fields written after another handler removed the session
    cancelInFlight,      \* tokens cancelled while _run_gamdl_stream was running for them
    afterCancel,         \* what a job sent to the chat after such a cancel, by token
    faults,              \* calls that raised so far
    \* ---- _run_gamdl_stream, one execution (stream specification) ----
    clock,               \* time.monotonic(), in seconds
    last,                \* _Throttle._last
    spc,                 \* position of _run_gamdl_stream
    nlines,              \* lines read so far
    admitted,            \* clock values at which on_progress was called
    rejected,            \* lines the throttle dropped
    \* ---- one start handler from job exit to its end (job specification) ----
    jpc,                 \* position of the handler
    send_zip,            \* mode == "zip"
    returncode,          \* exit code of the subprocess, -1 while it runs
    statusText,          \* text of the status message
    failNotice,          \* the failure text handed to edit_message_text: its tail,
                         \* and whether the chat shows it or refused it (BadRequest)
    audio_files,         \* sizes of the audio files of the workspace, in path order
    video_files,         \* sizes of the video files
    other_files,         \* sizes of the other files
    zipSize,             \* zip_path.stat().st_size, 0 before the archive exists
    batchNo,             \* number of the audio batch in hand
    fileNo,              \* index of the file in hand (in its batch or list)
    sent_any,            \* the flag of the same name
    transferred,         \* a transfer call succeeded
    tried,               \* files handed to a transfer call
    groups,              \* audio batches handed to send_media_group
    refused,             \* audio batches send_media_group answered with BadRequest
    singles,             \* audio files handed to send_audio
    singleFailed,        \* a send_audio call failed
    lastNotice,          \* notice sent by the latest step
    dones,               \* "send_complete" notices sent
    noFiles,             \* "no_files_found" notices sent
    archives,            \* archives handed to send_document
    filesRun,            \* _send_files_from_dir was called
    raisedAt,            \* call whose exception left the handler
    \* ---- _chunked, one execution (chunk specification) ----
    it,                  \* the input list
    cpos,                \* elements consumed by the for loop
    batch,               \* the batch being filled
    yielded,             \* batches yielded so far
    cpc,                 \* position of the generator
    \* ---- processes started on one host (lock specification) ----
    ppc,                 \* position of each process in main_async
    holder,              \* process holding the flock on LOCK_FILE, 0 if none
    lockFile,            \* pid written in the lock file, 0 if none
    served,              \* serving steps each process performed in this run
    starts,              \* times each process was started
    \* ---- cleanup_temp_dirs, one call (sweep specification) ----
    entries,             \* the children of base, in the order of iterdir
    inBase,              \* indices of the children still in base
    cutoff,              \* the local of the same name, in seconds
    wpos,                \* children the for loop has taken
    removed,             \* the counter of the same name
    errors,              \* the counter of the same name
    attempts,            \* indices of the children handed to shutil.rmtree
    failed,              \* indices of the children whose rmtree raised
    wpc,                 \* position of cleanup_temp_dirs
    \* ---- _run_gamdl_stream, its tail and its result (tail specification) ----
    buf_tail,            \* the list of the same name
    outLines,            \* every line the subprocess wrote, in order
    progSeen,            \* what became of the progress updates so far
    exitCode,            \* what proc.wait() returns, -1 before
    result,              \* the pair returned
    tpc,                 \* position of _run_gamdl_stream
    \* ---- the database module and its callers (persistence specification) ----
    dbUrl,               \* what _resolve_url finds: "none", DATABASE_URL, BOT_DB_PATH
    ipc,                 \* position of main_async around init_db
    tables,              \* the tables exist
    users,               \* user ids in the users table
    downloads,           \* tokens whose attempt has a row in the downloads table
    swallowed,           \* database exceptions caught and logged by the callers
    lateNotices,         \* messages sent by a start handler after line 958
    dpc,                 \* position of each token's start handler
    \* ---- _zip_directory, one call (archive specification) ----
    disk,                \* the files and directories below OUTPUT_ROOT
    zip_path,            \* the local of the same name
    visited,             \* paths the rglob of line 580 has yielded
    archive,             \* entries written to the archive, in order
    zpc,                 \* position of _zip_directory
    \* ---- the shared thumbnail of one delivery (cover specification) ----
    tree,                \* the files of the workspace
    poster_url,          \* the session has a poster URL
    shared_thumb_path,   \* the local of the same name, NoFile for None
    thumb_bytes_cache,   \* "none", or what _download_bytes was asked and gave
    kpc,                 \* position of _send_files_from_dir
    \* ---- start handlers and what they keep under OUTPUT_ROOT (flow specification) ----
    fpc,                 \* position of each token's start handler
    fmode,               \* its delivery mode
    zip_base,            \* what build_zip_basename gives for its session
    workspace,           \* its TemporaryDirectory: "none", "exists", "deleted", "swept"
    wsMtime,             \* st_mtime of that directory, in seconds
    outputFiles,         \* archive files in OUTPUT_ROOT, by base name
    dclock,              \* time.time(), in seconds
    ticks,               \* times the clock was advanced
    events               \* what each start handler did so far, in order

sessVars == <<CONCURRENCY, DOWNLOAD_SEMAPHORE, sessions, sess, msgpc, kb, hd,
              statusMsg, launches, staleWrites, cancelInFlight, afterCancel, faults>>
streamVars == <<clock, last, spc, nlines, admitted, rejected>>
deliveryVars == <<audio_files, video_files, other_files, zipSize, batchNo, fileNo,
                  sent_any, transferred, tried, groups, refused, singles, singleFailed,
                  lastNotice, dones, noFiles, archives, filesRun>>
jobVars == <<jpc, send_zip, returncode, statusText, failNotice, raisedAt, deliveryVars>>
chunkVars == <<it, cpos, batch, yielded, cpc>>
lockVars == <<ppc, holder, lockFile, served, starts>>
sweepVars == <<entries, inBase, cutoff, wpos, removed, errors, attempts, failed, wpc>>
tailVars == <<buf_tail, outLines, progSeen, exitCode, result, tpc>>
dbVars == <<dbUrl, ipc, tables, users, downloads, swallowed, lateNotices, dpc>>
zipVars == <<disk, zip_path, visited, archive, zpc>>
coverVars == <<tree, poster_url, shared_thumb_path, thumb_bytes_cache, kpc>>
flowVars == <<fpc, fmode, zip_base, workspace, wsMtime, outputFiles, dclock, ticks, events>>
fsVars == <<sweepVars, tailVars, dbVars, zipVars, coverVars, flowVars>>
nonSessVars == <<streamVars, jobVars, chunkVars, lockVars, fsVars>>
nonStreamVars == <<sessVars, jobVars, chunkVars, lockVars, fsVars>>
vars == <<sessVars, streamVars, jobVars, chunkVars, lockVars, fsVars>>

NoKeyboard == [kind |-> "none", preset |-> "none"]
QualityKeyboard == [kind |-> "quality", preset |-> "none"]
SendmodeKeyboard(p) == [kind |-> "sendmode", preset |-> p]

NewSession == [preset |-> "none", status_msg_id |-> 0, progress_base |-> FALSE, meta |-> FALSE]

\* reply: the notice the handler sent in answer to the button
IdleHandler == [pc |-> "idle", kind |-> "none", token |-> 0, preset |-> "none",
                mode |-> "none", found |-> FALSE, clr |-> 0, prog |-> 0,
                reply |-> "none"]

StreamIdle ==
    /\ clock = 0 /\ last = 0 /\ spc = "off" /\ nlines = 0
    /\ admitted = <<>> /\ rejected = 0

\* a session whose preset was chosen: handle_message has run (lines 807-839)
\* and a "q:" callback recorded the preset (lines 884-892)
ChosenSession == [NewSession EXCEPT !.preset = "default", !.meta = TRUE]

\* The service starts with an empty store.  To let the bounded number of
\* callbacks reach jobs of several sessions, a run may also start from the
\* state reached after the first tokens had their message handled and their
\* preset chosen.
SessInit ==
    /\ CONCURRENCY \in 1..MaxCapacity
    /\ DOWNLOAD_SEMAPHORE = CONCURRENCY
    /\ \E n \in 0..NumTokens :
          /\ sessions = 1..n
          /\ sess = [t \in Tokens |-> IF t <= n THEN ChosenSession ELSE NewSession]
          /\ msgpc = [t \in Tokens |-> IF t <= n THEN "shown" ELSE "new"]
          /\ kb = [t \in Tokens |-> IF t <= n THEN SendmodeKeyboard("default")
                                             ELSE NoKeyboard]
    /\ hd = [h \in Handlers |-> IdleHandler]
    /\ statusMsg = [h \in Handlers |-> "absent"]
    /\ launches = [t \in Tokens |-> 0]
    /\ staleWrites = {}
    /\ cancelInFlight = {}
    /\ afterCancel = [t \in Tokens |-> {}]
    /\ faults = 0

\* the start handler of the job specification is not running
NoFailNotice == [state |-> "none", tail |-> <<>>]

DeliveryIdle ==
    /\ audio_files = <<>> /\ video_files = <<>> /\ other_files = <<>>
    /\ zipSize = 0 /\ batchNo = 0 /\ fileNo = 0
    /\ sent_any = FALSE /\ transferred = FALSE
    /\ tried = {} /\ groups = {} /\ refused = {} /\ singles = {}
    /\ singleFailed = FALSE
    /\ lastNotice = "none" /\ dones = 0 /\ noFiles = 0 /\ archives = 0
    /\ filesRun = FALSE

JobIdle ==
    /\ jpc = "off" /\ send_zip = FALSE /\ returncode = -1
    /\ statusText = "none" /\ failNotice = NoFailNotice /\ raisedAt = "none"
    /\ DeliveryIdle

ChunkIdle ==
    /\ it = <<>> /\ cpos = 0 /\ batch = <<>> /\ yielded = <<>> /\ cpc = "off"

Procs == 1..NumProcs

LockIdle ==
    /\ ppc = [p \in Procs |-> "off"]
    /\ holder = 0 /\ lockFile = 0
    /\ served = [p \in Procs |-> {}]
    /\ starts = [p \in Procs |-> 0]

SweepIdle ==
    /\ entries = <<>> /\ inBase = {} /\ cutoff = 0 /\ wpos = 0
    /\ removed = 0 /\ errors = 0 /\ attempts = {} /\ failed = {} /\ wpc = "off"

NoResult == [code |-> -1, tail |-> <<>>]

TailIdle ==
    /\ buf_tail = <<>> /\ outLines = <<>> /\ progSeen = {} /\ exitCode = -1
    /\ result = NoResult /\ tpc = "off"

DbIdle ==
    /\ dbUrl = "none" /\ ipc = "off" /\ tables = FALSE /\ users = {} /\ downloads = {}
    /\ swallowed = 0 /\ lateNotices = 0 /\ dpc = [t \in Tokens |-> "off"]

ZipIdle ==
    /\ disk = {} /\ zip_path = <<>> /\ visited = {} /\ archive = <<>> /\ zpc = "off"

NoFile == [dir |-> "", stem |-> "", ext |-> "", size |-> 0]

CoverIdle ==
    /\ tree = {} /\ poster_url = FALSE /\ shared_thumb_path = NoFile
    /\ thumb_bytes_cache = "none" /\ kpc = "off"

FlowIdle ==
    /\ fpc = [t \in Tokens |-> "off"] /\ fmode = [t \in Tokens |-> "none"]
    /\ zip_base = [t \in Tokens |-> "none"]
    /\ workspace = [t \in Tokens |-> "none"] /\ wsMtime = [t \in Tokens |-> 0]
    /\ outputFiles = {} /\ dclock = 0 /\ ticks = 0
    /\ events = [t \in Tokens |-> <<>>]

FsIdle == SweepIdle /\ TailIdle /\ DbIdle /\ ZipIdle /\ CoverIdle /\ FlowIdle

Init == SessInit /\ StreamIdle /\ JobIdle /\ ChunkIdle /\ LockIdle /\ FsIdle

\* ---- helpers ------------------------------------------------------------
Live(id) == statusMsg[id] \notin {"absent", "deleted"}

Ended(h) == hd[h].pc \in {"done", "raised"}

\* positions between `async with DOWNLOAD_SEMAPHORE` being entered and left
GuardedPcs == {"go_launch", "go_stream", "go_deliver", "go_clear", "go_cleardel"}
InGuarded(h) == hd[h].pc \in GuardedPcs

\* positions inside the call of _run_gamdl_stream
InFlight(h) == hd[h].pc \in {"go_launch", "go_stream"}

\* a start handler writes a field of the session object it holds; it is the
\* last to pop the token itself, so a token missing from the store was
\* removed by another handler
NoteWrite(h, t, field) ==
    IF t \in sessions THEN staleWrites ELSE staleWrites \cup {field}

\* ---- handle_message -----------------------------------------------------
\* lines 807-809: a fresh token is put in the store; tokens are used in order
HandleMessageStart(t) ==
    /\ msgpc[t] = "new"
    /\ \A u \in Tokens : u < t => msgpc[u] # "new"
    /\ msgpc' = [msgpc EXCEPT ![t] = "lookup"]
    /\ sessions' = sessions \cup {t}
    /\ sess' = [sess EXCEPT ![t] = NewSession]
    /\ UNCHANGED <<CONCURRENCY, DOWNLOAD_SEMAPHORE, kb, hd, statusMsg, launches,
                   staleWrites, cancelInFlight, afterCancel, faults, nonSessVars>>

\* lines 811-834: after the metadata lookups return, meta/og/poster_url are saved
HandleMessageSave(t) ==
    /\ msgpc[t] = "lookup"
    /\ t \in sessions
    /\ msgpc' = [msgpc EXCEPT ![t] = "reply"]
    /\ sess' = [sess EXCEPT ![t].meta = TRUE]
    /\ UNCHANGED <<CONCURRENCY, DOWNLOAD_SEMAPHORE, sessions, kb, hd, statusMsg, launches,
                   staleWrites, cancelInFlight, afterCancel, faults, nonSessVars>>

\* lines 836-839: the caption is sent with the quality keyboard
HandleMessageReply(t) ==
    /\ msgpc[t] = "reply"
    /\ msgpc' = [msgpc EXCEPT ![t] = "shown"]
    /\ kb' = [kb EXCEPT ![t] = QualityKeyboard]
    /\ UNCHANGED <<CONCURRENCY, DOWNLOAD_SEMAPHORE, sessions, sess, hd, statusMsg, launches,
                   staleWrites, cancelInFlight, afterCancel, faults, nonSessVars>>

\* ---- callbacks: arrival -------------------------------------------------
\* The button pressed exists on the keyboard at the time of the press.
ButtonShown(t, kind, p) ==
    CASE kind = "cancel" -> kb[t].kind \in {"quality", "sendmode"}
      [] kind = "q"      -> kb[t].kind = "quality"
      [] kind = "back"   -> kb[t].kind = "sendmode"
      [] kind = "go"     -> kb[t].kind = "sendmode" /\ kb[t].preset = p
      [] OTHER           -> FALSE

\* lines 841-859: a callback query arrives; the handler awaits guard_access
\* and query.answer() before it looks at the store.  Handler slots are used
\* in order.
Click(h, t, kind, p, m) ==
    /\ hd[h].pc = "idle"
    /\ \A g \in Handlers : g < h => hd[g].pc # "idle"
    /\ msgpc[t] = "shown"
    /\ ButtonShown(t, kind, p)
    /\ (kind = "go") = (m \in Modes)
    /\ (kind \in {"q", "go"}) = (p \in PresetIds)
    /\ hd' = [hd EXCEPT ![h] = [IdleHandler EXCEPT !.pc = "answer", !.kind = kind,
                                    !.token = t, !.preset = p, !.mode = m]]
    /\ UNCHANGED <<CONCURRENCY, DOWNLOAD_SEMAPHORE, sessions, sess, msgpc, kb, statusMsg,
                   launches, staleWrites, cancelInFlight, afterCancel, faults, nonSessVars>>

Put(h, r) == [hd EXCEPT ![h] = r]

\* a handler that returned or raised: its locals are gone
Finished(h, how, reply) ==
    [IdleHandler EXCEPT !.pc = how, !.kind = hd[h].kind, !.token = hd[h].token,
                        !.found = hd[h].found, !.reply = reply]

\* ---- cancel: lines 864-874 ----------------------------------------------
\* lines 865-866: the session is popped, whether present or not
CancelBranch(h) ==
    LET t == hd[h].token
        present == t \in sessions
    IN  /\ hd[h].pc = "answer" /\ hd[h].kind = "cancel"
        /\ sessions' = sessions \ {t}
        /\ hd' = Put(h, [hd[h] EXCEPT !.pc = "cn_kb", !.found = present])
        /\ cancelInFlight' =
               IF present /\ \E g \in Handlers : hd[g].token = t /\ InFlight(g)
               THEN cancelInFlight \cup {t} ELSE cancelInFlight
        /\ UNCHANGED <<CONCURRENCY, DOWNLOAD_SEMAPHORE, sess, msgpc, kb, statusMsg,
                       launches, staleWrites, afterCancel, faults, nonSessVars>>

\* lines 867-873: the keyboard is removed (BadRequest swallowed).  With a
\* session, _clear_status_message reads the status ids (lines 693-696) and
\* awaits delete_message; with none, or with no ids, "Cancelled." is sent.
CancelEditKb(h) ==
    LET t == hd[h].token
        id == sess[t].status_msg_id
    IN  /\ hd[h].pc = "cn_kb"
        /\ kb' = [kb EXCEPT ![t] = NoKeyboard]
        /\ hd' = Put(h, IF hd[h].found /\ id # 0
                        THEN [hd[h] EXCEPT !.pc = "cn_del", !.clr = id]
                        ELSE Finished(h, "done", "cancel_ok"))
        /\ UNCHANGED <<CONCURRENCY, DOWNLOAD_SEMAPHORE, sessions, sess, msgpc, statusMsg,
                       launches, staleWrites, cancelInFlight, afterCancel, faults, nonSessVars>>

\* lines 697-704 and 873: delete_message returns (BadRequest swallowed), the
\* status fields are popped from the session object, "Cancelled." is sent
CancelClearDone(h) ==
    LET t == hd[h].token
        id == hd[h].clr
    IN  /\ hd[h].pc = "cn_del"
        /\ statusMsg' = IF Live(id) THEN [statusMsg EXCEPT ![id] = "deleted"] ELSE statusMsg
        /\ sess' = [sess EXCEPT ![t].status_msg_id = 0, ![t].progress_base = FALSE]
        /\ hd' = Put(h, Finished(h, "done", "cancel_ok"))
        /\ UNCHANGED <<CONCURRENCY, DOWNLOAD_SEMAPHORE, sessions, msgpc, kb, launches,
                       staleWrites, cancelInFlight, afterCancel, faults, nonSessVars>>

\* ---- back: lines 876-882 ------------------------------------------------
\* lines 877-880: without a session, "Session not found." is sent
BackBranch(h) ==
    LET t == hd[h].token
    IN  /\ hd[h].pc = "answer" /\ hd[h].kind = "back"
        /\ hd' = Put(h, IF t \in sessions
                        THEN [hd[h] EXCEPT !.pc = "bk_kb", !.found = TRUE]
                        ELSE Finished(h, "done", "not_found"))
        /\ UNCHANGED <<CONCURRENCY, DOWNLOAD_SEMAPHORE, sessions, sess, msgpc, kb, statusMsg,
                       launches, staleWrites, cancelInFlight, afterCancel, faults, nonSessVars>>

\* line 881: the quality keyboard is shown again; an edit that changes
\* nothing is a BadRequest, which this call does not catch
BackEditKb(h) ==
    LET t == hd[h].token
        same == kb[t] = QualityKeyboard
    IN  /\ hd[h].pc = "bk_kb"
        /\ kb' = [kb EXCEPT ![t] = QualityKeyboard]
        /\ hd' = Put(h, IF same THEN Finished(h, "raised", "none")
                                ELSE Finished(h, "done", "none"))
        /\ UNCHANGED <<CONCURRENCY, DOWNLOAD_SEMAPHORE, sessions, sess, msgpc, statusMsg,
                       launches, staleWrites, cancelInFlight, afterCancel, faults, nonSessVars>>

\* ---- choose preset: lines 884-892 ---------------------------------------
\* the same handler without the `if not sess` check of lines 887-889
QBranchUnchecked(h) ==
    LET t == hd[h].token
    IN  /\ hd[h].pc = "answer" /\ hd[h].kind = "q"
        /\ sess' = [sess EXCEPT ![t].preset = hd[h].preset]
        /\ hd' = Put(h, [hd[h] EXCEPT !.pc = "q_kb", !.found = t \in sessions])
        /\ UNCHANGED <<CONCURRENCY, DOWNLOAD_SEMAPHORE, sessions, msgpc, kb, statusMsg,
                       launches, staleWrites, cancelInFlight, afterCancel, faults, nonSessVars>>

\* lines 885-890: the preset is recorded in a session that is in the store;
\* without a session, "Session not found." is sent
QBranch(h) ==
    LET t == hd[h].token
    IN  /\ hd[h].pc = "answer" /\ hd[h].kind = "q"
        /\ IF t \in sessions
           THEN /\ sess' = [sess EXCEPT ![t].preset = hd[h].preset]
                /\ hd' = Put(h, [hd[h] EXCEPT !.pc = "q_kb", !.found = TRUE])
           ELSE /\ sess' = sess
                /\ hd' = Put(h, Finished(h, "done", "not_found"))
        /\ UNCHANGED <<CONCURRENCY, DOWNLOAD_SEMAPHORE, sessions, msgpc, kb, statusMsg,
                       launches, staleWrites, cancelInFlight, afterCancel, faults, nonSessVars>>

\* line 891: the send-mode keyboard of the preset is shown (the BadRequest of
\* an edit that changes nothing is not caught)
QEditKb(h) ==
    LET t == hd[h].token
        same == kb[t] = SendmodeKeyboard(hd[h].preset)
    IN  /\ hd[h].pc = "q_kb"
        /\ kb' = [kb EXCEPT ![t] = SendmodeKeyboard(hd[h].preset)]
        /\ hd' = Put(h, IF same THEN Finished(h, "raised", "none")
                                ELSE Finished(h, "done", "none"))
        /\ UNCHANGED <<CONCURRENCY, DOWNLOAD_SEMAPHORE, sessions, sess, msgpc, statusMsg,
                       launches, staleWrites, cancelInFlight, afterCancel, faults, nonSessVars>>

\* ---- start: lines 894-979 ------------------------------------------------
\* lines 895-903: the session is looked up and stays in the store; without
\* a session, "Session not found." is sent
GoBranch(h) ==
    LET t == hd[h].token
    IN  /\ hd[h].pc = "answer" /\ hd[h].kind = "go"
        /\ hd' = Put(h, IF t \in sessions
                        THEN [hd[h] EXCEPT !.pc = "go_kb", !.found = TRUE]
                        ELSE Finished(h, "done", "not_found"))
        /\ UNCHANGED <<CONCURRENCY, DOWNLOAD_SEMAPHORE, sessions, sess, msgpc, kb, statusMsg,
                       launches, staleWrites, cancelInFlight, afterCancel, faults, nonSessVars>>

\* lines 905-908: the keyboard is removed (BadRequest swallowed)
GoEditKb(h) ==
    LET t == hd[h].token
    IN  /\ hd[h].pc = "go_kb"
        /\ kb' = [kb EXCEPT ![t] = NoKeyboard]
        /\ hd' = Put(h, [hd[h] EXCEPT !.pc = "go_status"])
        /\ UNCHANGED <<CONCURRENCY, DOWNLOAD_SEMAPHORE, sessions, sess, msgpc, statusMsg,
                       launches, staleWrites, cancelInFlight, afterCancel, faults, nonSessVars>>

\* a semaphore that never makes the caller wait
SlotFreeAlways == TRUE

\* line 923: asyncio.Semaphore lets the caller in when a slot is free
SlotFree == DOWNLOAD_SEMAPHORE > 0

\* lines 911-927, 668-672, 519-521: reply_text returns the new status message
\* and its ids are written into the session object the handler holds; then a
\* slot of DOWNLOAD_SEMAPHORE is taken if one is free (the workspace is
\* created and _run_gamdl_stream starts the subprocess), else the handler
\* waits for one
GoCreateStatus(h) ==
    LET t == hd[h].token
    IN  /\ hd[h].pc = "go_status"
        /\ statusMsg' = [statusMsg EXCEPT ![h] = "downloading"]
        /\ sess' = [sess EXCEPT ![t].status_msg_id = h]
        /\ staleWrites' = NoteWrite(h, t, "status_msg_id")
        /\ IF SlotFree
           THEN /\ DOWNLOAD_SEMAPHORE' = DOWNLOAD_SEMAPHORE - 1
                /\ hd' = Put(h, [hd[h] EXCEPT !.pc = "go_launch"])
           ELSE /\ DOWNLOAD_SEMAPHORE' = DOWNLOAD_SEMAPHORE
                /\ hd' = Put(h, [hd[h] EXCEPT !.pc = "go_sem"])
        /\ UNCHANGED <<CONCURRENCY, sessions, msgpc, kb, launches,
                       cancelInFlight, afterCancel, faults, nonSessVars>>

\* lines 923-927 and 519-521: a waiting handler gets a released slot
GoAcquire(h) ==
    /\ hd[h].pc = "go_sem"
    /\ SlotFree
    /\ DOWNLOAD_SEMAPHORE' = DOWNLOAD_SEMAPHORE - 1
    /\ hd' = Put(h, [hd[h] EXCEPT !.pc = "go_launch"])
    /\ UNCHANGED <<CONCURRENCY, sessions, sess, msgpc, kb, statusMsg, launches,
                   staleWrites, cancelInFlight, afterCancel, faults, nonSessVars>>

\* lines 521-531: create_subprocess_exec returns the process
GoLaunch(h) ==
    LET t == hd[h].token
    IN  /\ hd[h].pc = "go_launch"
        /\ launches' = [launches EXCEPT ![t] = @ + 1]
        /\ hd' = Put(h, [hd[h] EXCEPT !.pc = "go_stream"])
        /\ UNCHANGED <<CONCURRENCY, DOWNLOAD_SEMAPHORE, sessions, sess, msgpc, kb, statusMsg,
                       staleWrites, cancelInFlight, afterCancel, faults, nonSessVars>>

\* lines 539-544, 917-918, 684-690, 674-682: an admitted line reaches
\* on_progress: progress_base is written when unset, then the status message
\* named by the session is edited (BadRequest swallowed)
GoProgress(h) ==
    LET t == hd[h].token
        id == sess[t].status_msg_id
        unset == ~sess[t].progress_base
    IN  /\ hd[h].pc = "go_stream"
        /\ hd[h].prog < MaxProgress
        /\ sess' = [sess EXCEPT ![t].progress_base = TRUE]
        /\ staleWrites' = IF unset THEN NoteWrite(h, t, "progress_base") ELSE staleWrites
        /\ statusMsg' = IF id # 0 /\ Live(id)
                        THEN [statusMsg EXCEPT ![id] = "progress"] ELSE statusMsg
        /\ hd' = Put(h, [hd[h] EXCEPT !.prog = @ + 1])
        /\ UNCHANGED <<CONCURRENCY, DOWNLOAD_SEMAPHORE, sessions, msgpc, kb, launches,
                       cancelInFlight, afterCancel, faults, nonSessVars>>

\* text of the _set_status_message call that follows the job
StatusTextAfterJob(rc, mode) ==
    IF rc # 0 THEN "failed"
    ELSE IF mode = "zip" THEN "uploading_zip" ELSE "uploading_files"

\* lines 531-533, 546-548, 927-935 / 940 / 952, 674-682: end of output, the
\* process exits with rc and _run_gamdl_stream returns; _set_status_message
\* edits the message named by the session, if any (BadRequest swallowed),
\* to the failure text or to the uploading text
GoExit(h, rc) ==
    LET t == hd[h].token
        id == sess[t].status_msg_id
        shown == id # 0 /\ Live(id)
        notice == IF shown /\ rc # 0 THEN {"fail_notice"} ELSE {}
    IN  /\ hd[h].pc = "go_stream"
        /\ statusMsg' = IF shown
                        THEN [statusMsg EXCEPT ![id] = StatusTextAfterJob(rc, hd[h].mode)]
                        ELSE statusMsg
        /\ hd' = Put(h, [hd[h] EXCEPT !.pc = IF rc # 0 THEN "go_clear" ELSE "go_deliver",
                                      !.prog = 0])
        /\ afterCancel' = IF t \in cancelInFlight
                          THEN [afterCancel EXCEPT ![t] = @ \cup notice] ELSE afterCancel
        /\ UNCHANGED <<CONCURRENCY, DOWNLOAD_SEMAPHORE, sessions, sess, msgpc, kb, launches,
                       staleWrites, cancelInFlight, faults, nonSessVars>>

\* what one delivery sends to the chat: the archive and "done", or what
\* _send_files_from_dir sends for an empty workspace ("none"), for files of
\* which at least one was transferred ("sent"), or for files of which none
\* was ("unsent")
Delivered(mode, zipBig, out) ==
    IF mode = "zip" /\ ~zipBig THEN {"archive", "done"}
    ELSE CASE out = "none"   -> {"no_files"}
           [] out = "sent"   -> {"file", "done"}
           [] out = "unsent" -> {"unsent_notice"}

\* lines 937-953: archive delivery, or per-file delivery (also when the
\* archive reaches the size ceiling)
GoDeliver(h, zipBig, out) ==
    LET t == hd[h].token
        id == sess[t].status_msg_id
        sent == Delivered(hd[h].mode, zipBig, out)
    IN  /\ hd[h].pc = "go_deliver"
        /\ zipBig => hd[h].mode = "zip"
        /\ (hd[h].mode = "zip" /\ ~zipBig) => out = "sent"
        /\ statusMsg' = IF zipBig /\ id # 0 /\ Live(id)
                        THEN [statusMsg EXCEPT ![id] = "zip_too_big"] ELSE statusMsg
        /\ hd' = Put(h, [hd[h] EXCEPT !.pc = "go_clear"])
        /\ afterCancel' = IF t \in cancelInFlight
                          THEN [afterCancel EXCEPT ![t] = @ \cup sent] ELSE afterCancel
        /\ UNCHANGED <<CONCURRENCY, DOWNLOAD_SEMAPHORE, sessions, sess, msgpc, kb, launches,
                       staleWrites, cancelInFlight, faults, nonSessVars>>

\* lines 958-979 and 693-696: _clear_status_message reads the status ids and
\* awaits delete_message; with no ids it returns at once, the with-blocks are
\* left (workspace deleted, slot released), the attempt is logged and the
\* session is popped from the store
GoClearRead(h) ==
    LET t == hd[h].token
        id == sess[t].status_msg_id
    IN  /\ hd[h].pc = "go_clear"
        /\ IF id # 0
           THEN /\ hd' = Put(h, [hd[h] EXCEPT !.pc = "go_cleardel", !.clr = id])
                /\ UNCHANGED <<DOWNLOAD_SEMAPHORE, sessions>>
           ELSE /\ DOWNLOAD_SEMAPHORE' = DOWNLOAD_SEMAPHORE + 1
                /\ sessions' = sessions \ {t}
                /\ hd' = Put(h, Finished(h, "done", "none"))
        /\ UNCHANGED <<CONCURRENCY, sess, msgpc, kb, statusMsg, launches, staleWrites,
                       cancelInFlight, afterCancel, faults, nonSessVars>>

\* lines 697-704, 923-924, 960-979: delete_message returns (BadRequest
\* swallowed) and the status fields are popped from the session object; the
\* with-blocks are left (workspace deleted, slot released), the attempt is
\* logged (a failure is swallowed) and the session is popped from the store
GoClearDone(h) ==
    LET t == hd[h].token
        id == hd[h].clr
    IN  /\ hd[h].pc = "go_cleardel"
        /\ statusMsg' = IF Live(id) THEN [statusMsg EXCEPT ![id] = "deleted"] ELSE statusMsg
        /\ sess' = [sess EXCEPT ![t].status_msg_id = 0, ![t].progress_base = FALSE]
        /\ staleWrites' = NoteWrite(h, t, "status_msg_id")
        /\ DOWNLOAD_SEMAPHORE' = DOWNLOAD_SEMAPHORE + 1
        /\ sessions' = sessions \ {t}
        /\ hd' = Put(h, Finished(h, "done", "none"))
        /\ UNCHANGED <<CONCURRENCY, msgpc, kb, launches,
                       cancelInFlight, afterCancel, faults, nonSessVars>>

\* awaits of the start handler whose call can raise an error that is not a
\* BadRequest (network error, timeout, missing binary, ...)
RaisingPcs == {"go_kb", "go_status", "go_launch", "go_stream", "go_deliver", "go_cleardel"}

\* the same exit by exception, leaving the slot taken
GoRaiseNoRelease(h) ==
    LET t == hd[h].token
        inClear == hd[h].pc = "go_cleardel"
    IN  /\ hd[h].pc \in RaisingPcs
        /\ faults < MaxFaults
        /\ faults' = faults + 1
        /\ sess' = IF inClear
                   THEN [sess EXCEPT ![t].status_msg_id = 0, ![t].progress_base = FALSE]
                   ELSE sess
        /\ staleWrites' = IF inClear THEN NoteWrite(h, t, "status_msg_id") ELSE staleWrites
        /\ hd' = Put(h, Finished(h, "raised", "none"))
        /\ UNCHANGED <<CONCURRENCY, DOWNLOAD_SEMAPHORE, sessions, msgpc, kb, statusMsg,
                       launches, cancelInFlight, afterCancel, nonSessVars>>

\* an awaited call raises: the exception leaves the handler.  Inside the
\* guarded section the with-blocks release the slot (line 923); inside
\* _clear_status_message the finally pops the status fields (lines 701-704).
\* Nothing after the raising call runs: lines 958-979 are skipped.
GoRaise(h) ==
    LET t == hd[h].token
        inClear == hd[h].pc = "go_cleardel"
    IN  /\ hd[h].pc \in RaisingPcs
        /\ faults < MaxFaults
        /\ faults' = faults + 1
        /\ DOWNLOAD_SEMAPHORE' = IF InGuarded(h) THEN DOWNLOAD_SEMAPHORE + 1
                                 ELSE DOWNLOAD_SEMAPHORE
        /\ sess' = IF inClear
                   THEN [sess EXCEPT ![t].status_msg_id = 0, ![t].progress_base = FALSE]
                   ELSE sess
        /\ staleWrites' = IF inClear THEN NoteWrite(h, t, "status_msg_id") ELSE staleWrites
        /\ hd' = Put(h, Finished(h, "raised", "none"))
        /\ UNCHANGED <<CONCURRENCY, sessions, msgpc, kb, statusMsg, launches,
                       cancelInFlight, afterCancel, nonSessVars>>

\* ---- the session specification ------------------------------------------
Next ==
    \/ \E t \in Tokens : HandleMessageStart(t)
    \/ \E t \in Tokens : HandleMessageSave(t)
    \/ \E t \in Tokens : HandleMessageReply(t)
    \/ \E h \in Handlers, t \in Tokens, kind \in {"cancel", "back", "q", "go"},
          p \in PresetIds \cup {"none"}, m \in Modes \cup {"none"} : Click(h, t, kind, p, m)
    \/ \E h \in Handlers : CancelBranch(h)
    \/ \E h \in Handlers : CancelEditKb(h)
    \/ \E h \in Handlers : CancelClearDone(h)
    \/ \E h \in Handlers : BackBranch(h)
    \/ \E h \in Handlers : BackEditKb(h)
    \/ \E h \in Handlers : QBranch(h)
    \/ \E h \in Handlers : QEditKb(h)
    \/ \E h \in Handlers : GoBranch(h)
    \/ \E h \in Handlers : GoEditKb(h)
    \/ \E h \in Handlers : GoCreateStatus(h)
    \/ \E h \in Handlers : GoAcquire(h)
    \/ \E h \in Handlers : GoLaunch(h)
    \/ \E h \in Handlers : GoProgress(h)
    \/ \E h \in Handlers, rc \in {0, 1} : GoExit(h, rc)
    \/ \E h \in Handlers, zipBig \in BOOLEAN, out \in {"none", "sent", "unsent"} :
          GoDeliver(h, zipBig, out)
    \/ \E h \in Handlers : GoClearRead(h)
    \/ \E h \in Handlers : GoClearDone(h)
    \/ \E h \in Handlers : GoRaise(h)

Spec == Init /\ [][Next]_vars

\* ---- _run_gamdl_stream: one execution, lines 513-548 --------------------
\* lines 501-503: the test of _Throttle.ok()
ThrottleOk(now, lst) == now - lst >= ThrottleInterval

\* lines 519-529: the subprocess is started and the throttle is created
\* with _last = 0.0 (lines 497-499)
StreamStart ==
    /\ spc = "new"
    /\ spc' = "reading"
    /\ last' = 0
    /\ UNCHANGED <<clock, nlines, admitted, rejected, nonStreamVars>>

\* the same loop body with an ok() that forgets to record the admission
ReadLineNoRecord(d) ==
    /\ spc = "reading"
    /\ nlines < MaxLines
    /\ clock' = clock + d
    /\ nlines' = nlines + 1
    /\ last' = last
    /\ IF ThrottleOk(clock', last)
       THEN admitted' = Append(admitted, clock') /\ rejected' = rejected
       ELSE admitted' = admitted /\ rejected' = rejected + 1
    /\ UNCHANGED <<spc, nonStreamVars>>

\* lines 530-544 and 501-506: a line arrives d seconds after the previous
\* one; throttle.ok() reads the clock, and when it admits the line it
\* records the time and on_progress is called at once
ReadLine(d) ==
    /\ spc = "reading"
    /\ nlines < MaxLines
    /\ clock' = clock + d
    /\ nlines' = nlines + 1
    /\ IF ThrottleOk(clock', last)
       THEN last' = clock' /\ admitted' = Append(admitted, clock') /\ rejected' = rejected
       ELSE last' = last /\ admitted' = admitted /\ rejected' = rejected + 1
    /\ UNCHANGED <<spc, nonStreamVars>>

\* lines 531-533 and 546-548: end of output
StreamEof ==
    /\ spc = "reading"
    /\ spc' = "done"
    /\ UNCHANGED <<clock, last, nlines, admitted, rejected, nonStreamVars>>

\* the monotonic clock has any value when the job starts
StreamInit ==
    /\ SessInit /\ CONCURRENCY = 1 /\ sessions = {}
    /\ JobIdle /\ ChunkIdle /\ LockIdle /\ FsIdle
    /\ clock \in 0..MaxStartClock
    /\ last = 0 /\ spc = "new" /\ nlines = 0 /\ admitted = <<>> /\ rejected = 0

NextStream ==
    \/ StreamStart
    \/ \E d \in 0..MaxGap : ReadLine(d)
    \/ StreamEof

SpecStream == StreamInit /\ [][NextStream]_vars

\* ---- one start handler, from the exit of its job to its own end ---------
\* (lines 927-979 with _send_files_from_dir and _send_audios_as_groups).
\* Sizes are in KiB.  Notices sent with send_message are taken to arrive.
JobToken == 1

\* a file just below the size ceiling, and one exactly at it
FileSizes == {MAX_TELEGRAM_FILE_KIB - 1, MAX_TELEGRAM_FILE_KIB}

\* the same test with the ceiling itself let through
TooLargeStrict(size) == size > MAX_TELEGRAM_FILE_KIB

\* lines 944, 1094, 1124: size >= MAX_TELEGRAM_FILE_BYTES
TooLarge(size) == size >= MAX_TELEGRAM_FILE_KIB

LastN(s, n) == IF Len(s) <= n THEN s ELSE SubSeq(s, Len(s) - n + 1, Len(s))

\* the first lines instead of the last ones
TailHead(n) == SubSeq([i \in 1..n |-> i], 1, IF n < TailShow THEN n ELSE TailShow)

\* lines 535-537 and 547: the subprocess wrote n lines (atoms, numbered as
\* read); buf_tail keeps the last 50 and tail_text joins the last 10 of them
TailText(n) == LastN(LastN([i \in 1..n |-> i], TailKeep), TailShow)

\* lines 982-990: the for loop of the generator, from element pos on, with
\* the batch b being filled and the batches out already yielded
RECURSIVE ChunkLoop(_, _, _, _, _)
ChunkLoop(s, size, pos, b, out) ==
    IF pos > Len(s)
    THEN IF b # <<>> THEN Append(out, b) ELSE out
    ELSE LET b2 == Append(b, s[pos])
         IN  IF Len(b2) = size
             THEN ChunkLoop(s, size, pos + 1, <<>>, Append(out, b2))
             ELSE ChunkLoop(s, size, pos + 1, b2, out)

Chunked(s, size) == ChunkLoop(s, size, 1, <<>>, <<>>)

\* line 997: the batches of audio files, each file named by its index
Batches == Chunked([i \in 1..Len(audio_files) |-> i], ChunkSize)

\* lists of audio files with at most MaxBigAudio files at the ceiling
AudioLists ==
    UNION { { [i \in 1..n |-> IF i \in big THEN MAX_TELEGRAM_FILE_KIB
                                           ELSE MAX_TELEGRAM_FILE_KIB - 1] :
                big \in {S \in SUBSET (1..n) : Cardinality(S) <= MaxBigAudio} } :
            n \in 0..MaxAudio }

SizeLists(max) == UNION { [1..n -> FileSizes] : n \in 0..max }

\* size of the file a transfer call was given
SizeOf(f) ==
    CASE f[1] = "audio" -> audio_files[f[2]]
      [] f[1] = "video" -> video_files[f[2]]
      [] f[1] = "other" -> other_files[f[2]]

\* the session variables the job specification leaves alone
sessOther == <<CONCURRENCY, sess, msgpc, kb, hd, statusMsg, launches, staleWrites,
               cancelInFlight, afterCancel, faults>>
jobFixed == <<sessOther, send_zip, streamVars, chunkVars, lockVars, fsVars>>

\* the handler has left the keyboard and the status message behind it and is
\* inside the guarded section, waiting for _run_gamdl_stream (line 927)
JobInit ==
    /\ CONCURRENCY = 1 /\ DOWNLOAD_SEMAPHORE = 0
    /\ sessions = {JobToken}
    /\ sess = [t \in Tokens |-> IF t = JobToken THEN ChosenSession ELSE NewSession]
    /\ msgpc = [t \in Tokens |-> IF t = JobToken THEN "shown" ELSE "new"]
    /\ kb = [t \in Tokens |-> NoKeyboard]
    /\ hd = [h \in Handlers |-> IdleHandler]
    /\ statusMsg = [h \in Handlers |-> "absent"]
    /\ launches = [t \in Tokens |-> IF t = JobToken THEN 1 ELSE 0]
    /\ staleWrites = {} /\ cancelInFlight = {}
    /\ afterCancel = [t \in Tokens |-> {}]
    /\ faults = 0
    /\ StreamIdle /\ ChunkIdle /\ LockIdle /\ FsIdle
    /\ jpc = "run" /\ send_zip \in BOOLEAN /\ returncode = -1
    /\ statusText = "downloading" /\ failNotice = NoFailNotice /\ raisedAt = "none"
    /\ DeliveryIdle

\* an exception leaves the handler at call `at`: the with-blocks release the
\* slot (line 923); lines 958-979 are skipped, the session stays in the store
JobRaised(at) ==
    /\ jpc' = "raised"
    /\ raisedAt' = at
    /\ DOWNLOAD_SEMAPHORE' = DOWNLOAD_SEMAPHORE + 1
    /\ UNCHANGED sessions

\* lines 927-935 and 674-682: the subprocess wrote n lines and exits with a
\* code other than 0; the failure text and the tail are edited into the status
\* message (res: the edit is done, answered with BadRequest, or raises)
RunExitFail(n, res) ==
    /\ jpc = "run"
    /\ returncode' = 1
    /\ nlines' = n
    /\ CASE res = "ok" ->
              /\ statusText' = "failed"
              /\ failNotice' = [state |-> "shown", tail |-> TailText(n)]
              /\ jpc' = "clear"
              /\ UNCHANGED <<raisedAt, DOWNLOAD_SEMAPHORE, sessions>>
         [] res = "bad_request" ->
              /\ failNotice' = [state |-> "refused", tail |-> TailText(n)]
              /\ jpc' = "clear"
              /\ UNCHANGED <<statusText, raisedAt, DOWNLOAD_SEMAPHORE, sessions>>
         [] res = "error" ->
              /\ JobRaised("status")
              /\ UNCHANGED <<statusText, failNotice>>
    /\ UNCHANGED <<deliveryVars, sessOther, send_zip, clock, last, spc, admitted,
                   rejected, chunkVars, lockVars, fsVars>>

\* lines 927, 937-940 / 952: the subprocess exits with 0 and leaves the files
\* a, v, o in the workspace; the status message is edited to the uploading
\* text (a BadRequest is swallowed and changes nothing that follows)
RunExitOk(a, v, o, res) ==
    /\ jpc = "run"
    /\ returncode' = 0
    /\ audio_files' = a /\ video_files' = v /\ other_files' = o
    /\ IF res = "ok"
       THEN /\ statusText' = IF send_zip THEN "uploading_zip" ELSE "uploading_files"
            /\ jpc' = IF send_zip THEN "zip" ELSE "files"
            /\ UNCHANGED <<raisedAt, DOWNLOAD_SEMAPHORE, sessions>>
       ELSE /\ JobRaised("status")
            /\ UNCHANGED statusText
    /\ UNCHANGED <<failNotice, zipSize, batchNo, fileNo, sent_any, transferred, tried,
                   groups, refused, singles, singleFailed, lastNotice, dones, noFiles,
                   archives, filesRun, jobFixed>>

\* lines 941-948: the archive is written and its size sz is read; at the
\* ceiling the status says so and per-file delivery takes over.  An archive
\* of an empty workspace is small.
ZipBuilt(sz) ==
    /\ jpc = "zip"
    /\ TooLarge(sz) => (Len(audio_files) + Len(video_files) + Len(other_files) > 0)
    /\ zipSize' = sz
    /\ IF TooLarge(sz)
       THEN statusText' = "zip_too_big" /\ jpc' = "files"
       ELSE statusText' = statusText /\ jpc' = "zipsend"
    /\ UNCHANGED <<returncode, failNotice, raisedAt, DOWNLOAD_SEMAPHORE, sessions,
                   audio_files, video_files, other_files, batchNo, fileNo, sent_any,
                   transferred, tried, groups, refused, singles, singleFailed,
                   lastNotice, dones, noFiles, archives, filesRun, jobFixed>>

\* lines 948-950: the archive is sent as one document, then "send_complete"
ZipSend(res) ==
    /\ jpc = "zipsend"
    /\ archives' = archives + 1
    /\ IF res = "ok"
       THEN /\ transferred' = TRUE
            /\ dones' = dones + 1 /\ lastNotice' = "done"
            /\ jpc' = "clear"
            /\ UNCHANGED <<raisedAt, DOWNLOAD_SEMAPHORE, sessions>>
       ELSE /\ JobRaised("archive")
            /\ UNCHANGED <<transferred, dones, lastNotice>>
    /\ UNCHANGED <<returncode, statusText, failNotice, audio_files, video_files,
                   other_files, zipSize, batchNo, fileNo, sent_any, tried, groups,
                   refused, singles, singleFailed, noFiles, filesRun, jobFixed>>

\* where _send_files_from_dir goes on after the audio files, after the videos
AfterAudio ==
    IF video_files # <<>> THEN "video" ELSE IF other_files # <<>> THEN "other" ELSE "finish"
AfterVideo == IF other_files # <<>> THEN "other" ELSE "finish"

\* lines 1069-1090 and 993-997: the files are listed; with none the
\* "no_files_found" notice is sent and the function returns; else the lists
\* by kind are built and the audio batches come first
FilesStart ==
    /\ jpc = "files"
    /\ filesRun' = TRUE
    /\ IF audio_files = <<>> /\ video_files = <<>> /\ other_files = <<>>
       THEN /\ noFiles' = noFiles + 1 /\ lastNotice' = "no_files"
            /\ jpc' = "clear"
            /\ UNCHANGED <<batchNo, fileNo>>
       ELSE /\ UNCHANGED <<noFiles, lastNotice>>
            /\ IF audio_files # <<>>
               THEN jpc' = "group" /\ batchNo' = 1 /\ fileNo' = 0
               ELSE jpc' = AfterAudio /\ batchNo' = 1 /\ fileNo' = 1
    /\ UNCHANGED <<returncode, statusText, failNotice, raisedAt, DOWNLOAD_SEMAPHORE,
                   sessions, audio_files, video_files, other_files, zipSize, sent_any,
                   transferred, tried, groups, refused, singles, singleFailed, dones,
                   archives, jobFixed>>

\* the audio batch in hand is dealt with: the next batch, or the videos
BatchDone ==
    IF batchNo < Len(Batches)
    THEN jpc' = "group" /\ batchNo' = batchNo + 1 /\ fileNo' = 0
    ELSE jpc' = AfterAudio /\ batchNo' = batchNo + 1 /\ fileNo' = 1

\* lines 998-1031 and 1059-1064: the batch is handed to send_media_group,
\* whatever the sizes of its files; the call succeeds, is answered with
\* BadRequest (the files will go one by one), or raises another error, which
\* no handler of this function or of its callers catches
GroupSend(res) ==
    LET grp == Batches[batchNo]
    IN  /\ jpc = "group"
        /\ tried' = tried \cup {<<"audio", grp[k]>> : k \in 1..Len(grp)}
        /\ groups' = groups \cup {batchNo}
        /\ lastNotice' = "none"
        /\ CASE res = "ok" ->
                  /\ sent_any' = TRUE /\ transferred' = TRUE
                  /\ BatchDone
                  /\ UNCHANGED <<refused, raisedAt, DOWNLOAD_SEMAPHORE, sessions>>
             [] res = "bad_request" ->
                  /\ refused' = refused \cup {batchNo}
                  /\ jpc' = "single" /\ fileNo' = 1
                  /\ UNCHANGED <<batchNo, sent_any, transferred, raisedAt,
                                 DOWNLOAD_SEMAPHORE, sessions>>
             [] res = "error" ->
                  /\ JobRaised("group")
                  /\ UNCHANGED <<refused, batchNo, fileNo, sent_any, transferred>>
        /\ UNCHANGED <<returncode, statusText, failNotice, audio_files, video_files,
                       other_files, zipSize, singles, singleFailed, dones, noFiles,
                       archives, filesRun, jobFixed>>

\* the same fallback, giving up the batch at the first send that fails
SingleSendAbort(res) ==
    LET grp == Batches[batchNo]
        f == grp[fileNo]
    IN  /\ jpc = "single"
        /\ tried' = tried \cup {<<"audio", f>>}
        /\ singles' = singles \cup {f}
        /\ IF res = "ok"
           THEN /\ sent_any' = TRUE /\ transferred' = TRUE /\ lastNotice' = "none"
                /\ UNCHANGED singleFailed
                /\ IF fileNo < Len(grp)
                   THEN jpc' = "single" /\ fileNo' = fileNo + 1 /\ UNCHANGED batchNo
                   ELSE BatchDone
           ELSE /\ singleFailed' = TRUE /\ lastNotice' = "send_failed"
                /\ UNCHANGED <<sent_any, transferred>>
                /\ BatchDone
        /\ UNCHANGED <<returncode, statusText, failNotice, raisedAt, DOWNLOAD_SEMAPHORE,
                       sessions, audio_files, video_files, other_files, zipSize, groups,
                       refused, dones, noFiles, archives, filesRun, jobFixed>>

\* lines 1032-1058: one file of a refused batch is handed to send_audio; any
\* exception is caught and answered with the "send_failed" notice, and the
\* loop goes on with the next file of the batch
SingleSend(res) ==
    LET grp == Batches[batchNo]
        f == grp[fileNo]
    IN  /\ jpc = "single"
        /\ tried' = tried \cup {<<"audio", f>>}
        /\ singles' = singles \cup {f}
        /\ IF res = "ok"
           THEN /\ sent_any' = TRUE /\ transferred' = TRUE /\ lastNotice' = "none"
                /\ UNCHANGED singleFailed
           ELSE /\ singleFailed' = TRUE /\ lastNotice' = "send_failed"
                /\ UNCHANGED <<sent_any, transferred>>
        /\ IF fileNo < Len(grp)
           THEN jpc' = "single" /\ fileNo' = fileNo + 1 /\ UNCHANGED batchNo
           ELSE BatchDone
        /\ UNCHANGED <<returncode, statusText, failNotice, raisedAt, DOWNLOAD_SEMAPHORE,
                       sessions, audio_files, video_files, other_files, zipSize, groups,
                       refused, dones, noFiles, archives, filesRun, jobFixed>>

\* lines 1092-1120: one video; at the ceiling the "file_too_large" notice is
\* sent and the file is skipped; else it is handed to send_video, and any
\* exception is caught and answered with the "send_failed" notice
VideoStep(res) ==
    LET size == video_files[fileNo]
    IN  /\ jpc = "video"
        /\ IF TooLarge(size)
           THEN /\ res = "ok"
                /\ lastNotice' = "too_large"
                /\ UNCHANGED <<tried, sent_any, transferred>>
           ELSE /\ tried' = tried \cup {<<"video", fileNo>>}
                /\ IF res = "ok"
                   THEN sent_any' = TRUE /\ transferred' = TRUE /\ lastNotice' = "none"
                   ELSE lastNotice' = "send_failed" /\ UNCHANGED <<sent_any, transferred>>
        /\ IF fileNo < Len(video_files)
           THEN jpc' = "video" /\ fileNo' = fileNo + 1
           ELSE jpc' = AfterVideo /\ fileNo' = 1
        /\ UNCHANGED <<returncode, statusText, failNotice, raisedAt, DOWNLOAD_SEMAPHORE,
                       sessions, audio_files, video_files, other_files, zipSize, batchNo,
                       groups, refused, singles, singleFailed, dones, noFiles, archives,
                       filesRun, jobFixed>>

\* lines 1122-1135: one other file; at the ceiling it is skipped with the
\* notice; else send_action is awaited outside any try that would catch a
\* network error (res = "action_error": the exception leaves the handler),
\* then the file is handed to send_document, whose exceptions are caught
OtherStep(res) ==
    LET size == other_files[fileNo]
        goOn == IF fileNo < Len(other_files)
                THEN jpc' = "other" /\ fileNo' = fileNo + 1
                ELSE jpc' = "finish" /\ fileNo' = 1
    IN  /\ jpc = "other"
        /\ IF TooLarge(size)
           THEN /\ res = "ok"
                /\ lastNotice' = "too_large"
                /\ goOn
                /\ UNCHANGED <<tried, sent_any, transferred, raisedAt,
                               DOWNLOAD_SEMAPHORE, sessions>>
           ELSE CASE res = "ok" ->
                       /\ tried' = tried \cup {<<"other", fileNo>>}
                       /\ sent_any' = TRUE /\ transferred' = TRUE /\ lastNotice' = "none"
                       /\ goOn
                       /\ UNCHANGED <<raisedAt, DOWNLOAD_SEMAPHORE, sessions>>
                  [] res = "fail" ->
                       /\ tried' = tried \cup {<<"other", fileNo>>}
                       /\ lastNotice' = "send_failed"
                       /\ goOn
                       /\ UNCHANGED <<sent_any, transferred, raisedAt,
                                      DOWNLOAD_SEMAPHORE, sessions>>
                  [] res = "action_error" ->
                       /\ JobRaised("other_action")
                       /\ lastNotice' = "none"
                       /\ UNCHANGED <<tried, sent_any, transferred, fileNo>>
        /\ UNCHANGED <<returncode, statusText, failNotice, audio_files, video_files,
                       other_files, zipSize, batchNo, groups, refused, singles,
                       singleFailed, dones, noFiles, archives, filesRun, jobFixed>>

\* lines 1137-1138: "send_complete" is sent if a transfer set sent_any
FilesFinish ==
    /\ jpc = "finish"
    /\ IF sent_any
       THEN dones' = dones + 1 /\ lastNotice' = "done"
       ELSE dones' = dones /\ lastNotice' = "none"
    /\ jpc' = "clear"
    /\ UNCHANGED <<returncode, statusText, failNotice, raisedAt, DOWNLOAD_SEMAPHORE,
                   sessions, audio_files, video_files, other_files, zipSize, batchNo,
                   fileNo, sent_any, transferred, tried, groups, refused, singles,
                   singleFailed, noFiles, archives, filesRun, jobFixed>>

\* the same end of the handler without the pop of line 979
JobClearKeep(res) ==
    /\ jpc = "clear"
    /\ IF res = "ok"
       THEN /\ statusText' = "deleted"
            /\ DOWNLOAD_SEMAPHORE' = DOWNLOAD_SEMAPHORE + 1
            /\ jpc' = "end"
            /\ UNCHANGED <<raisedAt, sessions>>
       ELSE /\ JobRaised("clear")
            /\ UNCHANGED statusText
    /\ UNCHANGED <<returncode, failNotice, deliveryVars, jobFixed>>

\* lines 958-979 and 692-704: the status message is deleted (a BadRequest is
\* swallowed), the with-blocks are left (workspace deleted, slot released),
\* the attempt is logged and the session is popped from the store; another
\* error of delete_message leaves the handler before that
JobClear(res) ==
    /\ jpc = "clear"
    /\ IF res = "ok"
       THEN /\ statusText' = "deleted"
            /\ DOWNLOAD_SEMAPHORE' = DOWNLOAD_SEMAPHORE + 1
            /\ sessions' = sessions \ {JobToken}
            /\ jpc' = "end"
            /\ UNCHANGED raisedAt
       ELSE /\ JobRaised("clear")
            /\ UNCHANGED statusText
    /\ UNCHANGED <<returncode, failNotice, deliveryVars, jobFixed>>

NextJob ==
    \/ /\ jpc = "run"
       /\ \E n \in 0..MaxOut, res \in {"ok", "bad_request", "error"} : RunExitFail(n, res)
    \/ /\ jpc = "run"
       /\ \E a \in AudioLists, v \in SizeLists(MaxVideo), o \in SizeLists(MaxOther),
             res \in {"ok", "error"} : RunExitOk(a, v, o, res)
    \/ \E sz \in FileSizes : ZipBuilt(sz)
    \/ \E res \in {"ok", "error"} : ZipSend(res)
    \/ FilesStart
    \/ \E res \in {"ok", "bad_request", "error"} : GroupSend(res)
    \/ \E res \in {"ok", "fail"} : SingleSend(res)
    \/ \E res \in {"ok", "fail"} : VideoStep(res)
    \/ \E res \in {"ok", "fail", "action_error"} : OtherStep(res)
    \/ FilesFinish
    \/ \E res \in {"ok", "error"} : JobClear(res)

SpecJob == JobInit /\ [][NextJob]_vars

\* ---- _chunked: one execution of the generator, lines 982-990 ------------
\* the files of a workspace are distinct paths: the list is 1..n
ChunkInit ==
    /\ SessInit /\ CONCURRENCY = 1 /\ sessions = {}
    /\ StreamIdle /\ JobIdle /\ LockIdle /\ FsIdle
    /\ it \in {[i \in 1..n |-> i] : n \in 0..MaxItems}
    /\ cpos = 0 /\ batch = <<>> /\ yielded = <<>> /\ cpc = "loop"

\* lines 984-988: the next element is appended; a full batch is yielded and
\* a new one begun
ChunkNext ==
    LET b2 == Append(batch, it[cpos + 1])
    IN  /\ cpc = "loop"
        /\ cpos < Len(it)
        /\ cpos' = cpos + 1
        /\ IF Len(b2) = ChunkSize
           THEN yielded' = Append(yielded, b2) /\ batch' = <<>>
           ELSE yielded' = yielded /\ batch' = b2
        /\ UNCHANGED <<it, cpc, sessVars, streamVars, jobVars, lockVars, fsVars>>

\* the same end of the generator, forgetting the batch being filled
ChunkEndDrop ==
    /\ cpc = "loop"
    /\ cpos = Len(it)
    /\ cpc' = "done"
    /\ UNCHANGED <<it, cpos, batch, yielded, sessVars, streamVars, jobVars, lockVars, fsVars>>

\* lines 989-990: the input is exhausted; a batch that holds elements is
\* yielded
ChunkEnd ==
    /\ cpc = "loop"
    /\ cpos = Len(it)
    /\ yielded' = IF batch # <<>> THEN Append(yielded, batch) ELSE yielded
    /\ cpc' = "done"
    /\ UNCHANGED <<it, cpos, batch, sessVars, streamVars, jobVars, lockVars, fsVars>>

NextChunk ==
    \/ ChunkNext
    \/ ChunkEnd

SpecChunk == ChunkInit /\ [][NextChunk]_vars

\* ---- processes of the service on one host, lines 217-234, 1145-1226 -----
\* Every process uses the same LOCK_FILE.  Its steps interleave freely with
\* those of the others; flock is one atomic call of the kernel, and a lock
\* belongs to the open file description of the process that took it.
LockInit ==
    /\ SessInit /\ CONCURRENCY = 1 /\ sessions = {}
    /\ StreamIdle /\ JobIdle /\ ChunkIdle /\ LockIdle /\ FsIdle

\* positions between the yield of single_instance_lock and the end of its
\* with-block in main_async
ScopePcs == {"locked", "cleaned", "registered", "polling"}
InScope(p) == ppc[p] \in ScopePcs

Stopped(p) == ppc[p] \in {"off", "aborted", "exited", "killed"}

lockFixed == <<sessVars, streamVars, jobVars, chunkVars, fsVars>>

\* lines 1222-1226, 1145-1152, 222-223: the process is started, main_async
\* runs up to the with statement and the lock file is opened
ProcStart(p) ==
    /\ Stopped(p)
    /\ starts[p] < MaxStarts
    /\ starts' = [starts EXCEPT ![p] = @ + 1]
    /\ served' = [served EXCEPT ![p] = {}]
    /\ ppc' = [ppc EXCEPT ![p] = "opened"]
    /\ UNCHANGED <<holder, lockFile, lockFixed>>

\* line 225: LOCK_EX is granted only if no open file description holds a lock
FlockFree == holder = 0

\* lines 225-228: flock(LOCK_EX | LOCK_NB) returns at once: with the lock,
\* and then the pid is written and the with-block is entered, or with
\* BlockingIOError
TryLock(p) ==
    /\ ppc[p] = "opened"
    /\ IF FlockFree
       THEN /\ holder' = p
            /\ lockFile' = p
            /\ ppc' = [ppc EXCEPT ![p] = "locked"]
       ELSE /\ ppc' = [ppc EXCEPT ![p] = "failing"]
            /\ UNCHANGED <<holder, lockFile>>
    /\ UNCHANGED <<served, starts, lockFixed>>

\* a finally that takes the lock away from whoever holds it
FailedUnlockAll(p) ==
    /\ ppc[p] = "failing"
    /\ holder' = 0
    /\ ppc' = [ppc EXCEPT ![p] = "aborted"]
    /\ UNCHANGED <<lockFile, served, starts, lockFixed>>

\* lines 229-234: the finally of the process that got no lock: LOCK_UN on
\* its own descriptor releases nothing another process holds; the descriptor
\* is closed and the exception ends main_async and the process
FailedUnlock(p) ==
    /\ ppc[p] = "failing"
    /\ holder' = IF holder = p THEN 0 ELSE holder
    /\ ppc' = [ppc EXCEPT ![p] = "aborted"]
    /\ UNCHANGED <<lockFile, served, starts, lockFixed>>

\* lines 1153-1166: database set up (failure logged), startup cleanup
StartupCleanup(p) ==
    /\ ppc[p] = "locked"
    /\ served' = [served EXCEPT ![p] = @ \cup {"cleanup"}]
    /\ ppc' = [ppc EXCEPT ![p] = "cleaned"]
    /\ UNCHANGED <<holder, lockFile, starts, lockFixed>>

\* lines 1168-1197: the application is built and the handlers are added
RegisterHandlers(p) ==
    /\ ppc[p] = "cleaned"
    /\ served' = [served EXCEPT ![p] = @ \cup {"handlers"}]
    /\ ppc' = [ppc EXCEPT ![p] = "registered"]
    /\ UNCHANGED <<holder, lockFile, starts, lockFixed>>

\* lines 1200-1214: initialize, start, start_polling, then wait for ever
StartPolling(p) ==
    /\ ppc[p] = "registered"
    /\ served' = [served EXCEPT ![p] = @ \cup {"polling"}]
    /\ ppc' = [ppc EXCEPT ![p] = "polling"]
    /\ UNCHANGED <<holder, lockFile, starts, lockFixed>>

\* a with-block whose end leaves the lock with the process that ends
LeaveScopeKeep(p) ==
    /\ InScope(p)
    /\ ppc' = [ppc EXCEPT ![p] = "exited"]
    /\ UNCHANGED <<holder, lockFile, served, starts, lockFixed>>

\* lines 1215-1220 and 229-234: the wait is cancelled, or a call inside the
\* with-block raises: the block is left, the finally unlocks and closes
LeaveScope(p) ==
    /\ InScope(p)
    /\ holder' = IF holder = p THEN 0 ELSE holder
    /\ ppc' = [ppc EXCEPT ![p] = "exited"]
    /\ UNCHANGED <<lockFile, served, starts, lockFixed>>

\* the process is killed: the kernel closes its descriptors, which releases
\* the lock it holds
Kill(p) ==
    /\ ~Stopped(p)
    /\ holder' = IF holder = p THEN 0 ELSE holder
    /\ ppc' = [ppc EXCEPT ![p] = "killed"]
    /\ UNCHANGED <<lockFile, served, starts, lockFixed>>

NextLock ==
    \/ \E p \in Procs : ProcStart(p)
    \/ \E p \in Procs : TryLock(p)
    \/ \E p \in Procs : FailedUnlock(p)
    \/ \E p \in Procs : StartupCleanup(p)
    \/ \E p \in Procs : RegisterHandlers(p)
    \/ \E p \in Procs : StartPolling(p)
    \/ \E p \in Procs : LeaveScope(p)
    \/ \E p \in Procs : Kill(p)

SpecLock == LockInit /\ [][NextLock]_vars

\* ---- cleanup_temp_dirs, lines 463-488 -----------------------------------
\* One call on a base directory.  Times are in seconds as in the code; a
\* child of base is a record of what the three tests of the loop read: its
\* kind (is_dir), whether its name starts with the prefix, and its st_mtime.
Now == 1000000
\* the ages of the children, in hours, around the retention windows tried
AgesHours == {1, 24, 25, 48}
TtlHours == {24, 48}

EntryKinds == [isDir : BOOLEAN, prefixed : BOOLEAN,
               mtime : {Now - a * SecondsPerHour : a \in AgesHours}]

RECURSIVE SeqsUpTo(_, _)
\* the sequences over S of length at most n
SeqsUpTo(S, n) ==
    IF n = 0 THEN {<<>>}
    ELSE LET shorter == SeqsUpTo(S, n - 1)
         IN  shorter \cup {Append(q, x) : q \in {r \in shorter : Len(r) = n - 1}, x \in S}

\* a comparison that also takes a child modified exactly at the cutoff
IsOlderOrEqual(child, c) == child.mtime <= c

\* lines 463-468: _is_older_than, for a child that stat finds
IsOlderThan(child, c) == child.mtime < c

\* lines 475-480: the three tests a child passes before rmtree is called
Candidate(child, c) ==
    /\ child.isDir
    /\ child.prefixed
    /\ IsOlderThan(child, c)

\* lines 471-474: the counters, the cutoff and the listing of base
SweepInit ==
    /\ SessInit /\ CONCURRENCY = 1 /\ sessions = {}
    /\ StreamIdle /\ JobIdle /\ ChunkIdle /\ LockIdle /\ TailIdle /\ DbIdle /\ ZipIdle /\ CoverIdle /\ FlowIdle
    /\ entries \in SeqsUpTo(EntryKinds, MaxEntries)
    /\ inBase = DOMAIN entries
    /\ \E ttl_hours \in TtlHours : cutoff = Now - ttl_hours * SecondsPerHour
    /\ wpos = 0 /\ removed = 0 /\ errors = 0
    /\ attempts = {} /\ failed = {} /\ wpc = "loop"

sweepFixed == <<sessVars, streamVars, jobVars, chunkVars, lockVars, tailVars, dbVars, zipVars, coverVars, flowVars>>

\* lines 475-480: the child fails one of the tests: continue
SweepSkip ==
    /\ wpc = "loop"
    /\ wpos < Len(entries)
    /\ ~Candidate(entries[wpos + 1], cutoff)
    /\ wpos' = wpos + 1
    /\ UNCHANGED <<entries, inBase, cutoff, removed, errors, attempts, failed, wpc,
                   sweepFixed>>

\* a removal whose failure leaves the function
SweepRemoveAbort(res) ==
    /\ wpc = "loop"
    /\ wpos < Len(entries)
    /\ Candidate(entries[wpos + 1], cutoff)
    /\ wpos' = wpos + 1
    /\ attempts' = attempts \cup {wpos + 1}
    /\ IF res = "ok"
       THEN /\ inBase' = inBase \ {wpos + 1}
            /\ removed' = removed + 1
            /\ UNCHANGED <<errors, failed, wpc>>
       ELSE /\ failed' = failed \cup {wpos + 1}
            /\ errors' = errors + 1
            /\ wpc' = "returned"
            /\ UNCHANGED <<inBase, removed>>
    /\ UNCHANGED <<entries, cutoff, sweepFixed>>

\* lines 481-487: rmtree of a candidate: it is removed and counted, or rmtree
\* raises, the child stays in base and the error is counted
SweepRemove(res) ==
    /\ wpc = "loop"
    /\ wpos < Len(entries)
    /\ Candidate(entries[wpos + 1], cutoff)
    /\ wpos' = wpos + 1
    /\ attempts' = attempts \cup {wpos + 1}
    /\ IF res = "ok"
       THEN /\ inBase' = inBase \ {wpos + 1}
            /\ removed' = removed + 1
            /\ UNCHANGED <<errors, failed>>
       ELSE /\ failed' = failed \cup {wpos + 1}
            /\ errors' = errors + 1
            /\ UNCHANGED <<inBase, removed>>
    /\ UNCHANGED <<entries, cutoff, wpc, sweepFixed>>

\* line 488: the listing is exhausted: return removed, errors
SweepReturn ==
    /\ wpc = "loop"
    /\ wpos = Len(entries)
    /\ wpc' = "returned"
    /\ UNCHANGED <<entries, inBase, cutoff, wpos, removed, errors, attempts, failed,
                   sweepFixed>>

NextSweep ==
    \/ SweepSkip
    \/ \E res \in {"ok", "error"} : SweepRemove(res)
    \/ SweepReturn

SpecSweep == SweepInit /\ [][NextSweep]_vars

\* ---- _run_gamdl_stream: the rolling tail and the result, lines 526-548 --
\* The lines of the subprocess are atoms numbered as they are read.  Whether
\* throttle.ok() admits a line is left open here (the stream specification
\* has the clock), and so is what on_progress does with an admitted line.
ExitCodes == {0, 1, 255}
ProgressOutcomes == {"rejected", "delivered", "raised"}

\* a list that is never cut
TrimNever(buf) == buf

\* lines 536-537: buf_tail = buf_tail[-50:] once it is longer than 50
Trim(buf) == IF Len(buf) > TailKeep THEN LastN(buf, TailKeep) ELSE buf

\* lines 521-529: the subprocess is created, the tail is empty
TailInit ==
    /\ SessInit /\ CONCURRENCY = 1 /\ sessions = {}
    /\ StreamIdle /\ JobIdle /\ ChunkIdle /\ LockIdle /\ SweepIdle /\ DbIdle /\ ZipIdle /\ CoverIdle /\ FlowIdle
    /\ buf_tail = <<>> /\ outLines = <<>> /\ progSeen = {} /\ exitCode = -1
    /\ result = NoResult /\ tpc = "reading"

tailFixed == <<sessVars, streamVars, jobVars, chunkVars, lockVars, sweepVars, dbVars, zipVars, coverVars, flowVars>>

\* an exception of on_progress that leaves the function
TailLineRaise(outcome) ==
    /\ tpc = "reading"
    /\ Len(outLines) < MaxOut
    /\ outLines' = Append(outLines, Len(outLines) + 1)
    /\ buf_tail' = Trim(Append(buf_tail, Len(outLines) + 1))
    /\ progSeen' = progSeen \cup {outcome}
    /\ tpc' = IF outcome = "raised" THEN "raised" ELSE tpc
    /\ UNCHANGED <<exitCode, result, tailFixed>>

\* lines 531-544: one line is read, appended to the tail and the tail is
\* cut; then the throttle rejects the line, or on_progress is awaited and
\* returns, or it raises and the exception is discarded (lines 543-544)
TailLine(outcome) ==
    /\ tpc = "reading"
    /\ Len(outLines) < MaxOut
    /\ outLines' = Append(outLines, Len(outLines) + 1)
    /\ buf_tail' = Trim(Append(buf_tail, Len(outLines) + 1))
    /\ progSeen' = progSeen \cup {outcome}
    /\ UNCHANGED <<exitCode, result, tpc, tailFixed>>

\* lines 532-533 and 546-548: end of output, the exit code is awaited and
\* returned with the last 10 lines of the tail
TailEof(code) ==
    /\ tpc = "reading"
    /\ exitCode' = code
    /\ result' = [code |-> code, tail |-> LastN(buf_tail, TailShow)]
    /\ tpc' = "returned"
    /\ UNCHANGED <<buf_tail, outLines, progSeen, tailFixed>>

NextTail ==
    \/ \E outcome \in ProgressOutcomes : TailLine(outcome)
    \/ \E code \in ExitCodes : TailEof(code)

SpecTail == TailInit /\ [][NextTail]_vars

\* ---- db.py and the calls made to it by bot.py ---------------------------
\* The functions of db.py contain no await: each call is one step.  A call
\* that reaches the engine writes its rows or raises (no connection, no
\* table, ...); every caller catches the exception and logs it.
DbOutcomes == {"ok", "error"}

\* db.py lines 19-37: the URL comes from DATABASE_URL, else from BOT_DB_PATH
\* (SQLite file), else there is none
DbConfigs == {"none", "url", "file"}

\* db.py lines 40-41 and 19-37: a URL is resolved when one of the two
\* environment variables is set
has_db == dbUrl # "none"

\* db.py lines 44-59, 96, 116, 134: the engine is reached and the statement fails
DbRaises(res) == has_db /\ res = "error"

\* db.py lines 62-98: without a database init_db returns at once (66-67),
\* else the two tables are created
init_db(res) == IF has_db /\ res = "ok" THEN TRUE ELSE tables

\* db.py lines 101-123: without a database upsert_user returns at once
\* (102-103), else the row of the user is inserted or updated
upsert_user(u, res) == IF has_db /\ res = "ok" THEN users \cup {u} ELSE users

\* db.py lines 126-146: without a database add_download_log returns at once
\* (127-128), else one row is inserted
add_download_log(t, res) == IF has_db /\ res = "ok" THEN downloads \cup {t} ELSE downloads

\* a statement succeeds only with a database whose tables exist, and only a
\* call that reaches the engine can fail
Possible(res, needsTables) ==
    /\ (res = "error") => (has_db /\ swallowed < MaxDbErrors)
    /\ (res = "ok" /\ has_db /\ needsTables) => tables

\* the service is about to call init_db; every token has a session and its
\* start button will be pressed
DbInit ==
    /\ SessInit /\ CONCURRENCY = 1 /\ sessions = Tokens
    /\ StreamIdle /\ JobIdle /\ ChunkIdle /\ LockIdle /\ SweepIdle /\ TailIdle /\ ZipIdle /\ CoverIdle /\ FlowIdle
    /\ dbUrl \in DbConfigs
    /\ ipc = "new" /\ tables = FALSE /\ users = {} /\ downloads = {}
    /\ swallowed = 0 /\ lateNotices = 0
    /\ dpc = [t \in Tokens |-> "guard"]

dbFixed == <<DOWNLOAD_SEMAPHORE, sessOther, streamVars, jobVars, chunkVars, lockVars,
             sweepVars, tailVars, zipVars, coverVars, flowVars>>

\* bot.py lines 1153-1161: init_db is awaited; a failure is logged
InitDb(res) ==
    /\ ipc = "new"
    /\ Possible(res, FALSE)
    /\ tables' = init_db(res)
    /\ swallowed' = IF DbRaises(res) THEN swallowed + 1 ELSE swallowed
    /\ ipc' = "started"
    /\ UNCHANGED <<dbUrl, users, downloads, lateNotices, dpc, sessions, dbFixed>>

\* bot.py lines 295-305 and 854: guard_access records the user of the start
\* callback (the user id is the token's here); a failure is logged and the
\* guard goes on
UpsertUser(t, res) ==
    /\ ipc = "started"
    /\ dpc[t] = "guard"
    /\ Possible(res, TRUE)
    /\ users' = upsert_user(t, res)
    /\ swallowed' = IF DbRaises(res) THEN swallowed + 1 ELSE swallowed
    /\ dpc' = [dpc EXCEPT ![t] = "job"]
    /\ UNCHANGED <<dbUrl, ipc, tables, downloads, lateNotices, sessions, dbFixed>>

\* bot.py lines 856-958: the start handler runs its job and its delivery and
\* clears the status message, with no call to the database
JobAndDelivery(t) ==
    /\ dpc[t] = "job"
    /\ dpc' = [dpc EXCEPT ![t] = "log"]
    /\ UNCHANGED <<dbUrl, ipc, tables, users, downloads, swallowed, lateNotices,
                   sessions, dbFixed>>

\* the end of the start handler with the exception of add_download_log
\* leaving it
LogAndPopUncaught(t, res) ==
    /\ ipc = "started"
    /\ dpc[t] = "log"
    /\ Possible(res, TRUE)
    /\ downloads' = add_download_log(t, res)
    /\ IF DbRaises(res)
       THEN /\ dpc' = [dpc EXCEPT ![t] = "raised"]
            /\ UNCHANGED <<swallowed, sessions>>
       ELSE /\ dpc' = [dpc EXCEPT ![t] = "end"]
            /\ sessions' = sessions \ {t}
            /\ UNCHANGED swallowed
    /\ UNCHANGED <<dbUrl, ipc, tables, users, lateNotices, dbFixed>>

\* bot.py lines 960-979: the attempt is logged, a failure of the call is
\* caught and logged, and the session is popped from the store; no message
\* is sent
LogAndPop(t, res) ==
    /\ ipc = "started"
    /\ dpc[t] = "log"
    /\ Possible(res, TRUE)
    /\ downloads' = add_download_log(t, res)
    /\ swallowed' = IF DbRaises(res) THEN swallowed + 1 ELSE swallowed
    /\ sessions' = sessions \ {t}
    /\ dpc' = [dpc EXCEPT ![t] = "end"]
    /\ UNCHANGED <<dbUrl, ipc, tables, users, lateNotices, dbFixed>>

NextDb ==
    \/ \E res \in DbOutcomes : InitDb(res)
    \/ \E t \in Tokens, res \in DbOutcomes : UpsertUser(t, res)
    \/ \E t \in Tokens : JobAndDelivery(t)
    \/ \E t \in Tokens, res \in DbOutcomes : LogAndPop(t, res)

SpecDb == DbInit /\ [][NextDb]_vars

\* ---- _zip_directory, lines 576-583 --------------------------------------
\* A path is the sequence of its components.  The workspace is a directory
\* of OUTPUT_ROOT (line 924); what is on disk is a set of records, one per
\* file or directory, with the content of a file as one atom.
src_dir == <<"out", "gamdl_1">>
FileContents == {1, 2}
\* zip_basename: None, or the name built from the session
ZipBasenames == {"none", "Artist - Album"}

File(p, c) == [path |-> p, isFile |-> TRUE, data |-> c]
Dir(p) == [path |-> p, isFile |-> FALSE, data |-> 0]

\* what the workspace holds under one top-level name: nothing, a file, an
\* empty directory, or a directory with one file
Under(n) ==
    {{}, {Dir(src_dir \o <<n>>)}}
    \cup {{File(src_dir \o <<n>>, c)} : c \in FileContents}
    \cup {{Dir(src_dir \o <<n>>), File(src_dir \o <<n, "x">>, c)} : c \in FileContents}

Workspaces == {A \cup B : A \in Under("a"), B \in Under("b")}

\* pathlib: p is below base
IsUnder(p, base) == Len(p) > Len(base) /\ SubSeq(p, 1, Len(base)) = base

\* an archive name that keeps the whole path
FullPath(p, base) == p

\* line 582: p.relative_to(src_dir)
RelativeTo(p, base) == SubSeq(p, Len(base) + 1, Len(p))

\* lines 577-578: the archive is a file of the parent of src_dir
ZipPath(basename) ==
    SubSeq(src_dir, 1, Len(src_dir) - 1)
        \o <<IF basename = "none" THEN "gamdl_1.zip" ELSE "Artist - Album.zip">>

\* every file or directory that can be on disk
DiskEntries == UNION Workspaces \cup {File(ZipPath(b), 0) : b \in ZipBasenames}

\* line 580: what src_dir.rglob("*") can yield: every path below src_dir
Rglob == {e \in disk : IsUnder(e.path, src_dir)}

\* lines 577-579: the name is built and ZipFile(zip_path, "w") creates the
\* empty archive on disk
ZipInit ==
    /\ SessInit /\ CONCURRENCY = 1 /\ sessions = {}
    /\ StreamIdle /\ JobIdle /\ ChunkIdle /\ LockIdle /\ SweepIdle /\ TailIdle /\ DbIdle /\ CoverIdle /\ FlowIdle
    /\ \E w \in Workspaces, basename \in ZipBasenames :
          /\ zip_path = ZipPath(basename)
          /\ disk = {Dir(src_dir)} \cup w \cup {File(ZipPath(basename), 0)}
    /\ visited = {} /\ archive = <<>> /\ zpc = "open"

zipFixed == <<sessVars, streamVars, jobVars, chunkVars, lockVars, sweepVars, tailVars,
              dbVars, coverVars, flowVars>>

\* lines 580-581: rglob yields a directory: nothing is written
ZipSkip(e) ==
    /\ zpc = "open"
    /\ e \in Rglob /\ e.path \notin visited
    /\ ~e.isFile
    /\ visited' = visited \cup {e.path}
    /\ UNCHANGED <<disk, zip_path, archive, zpc, zipFixed>>

\* lines 580-582: rglob yields a file, in any order: it is written under its
\* path relative to src_dir
ZipWrite(e) ==
    /\ zpc = "open"
    /\ e \in Rglob /\ e.path \notin visited
    /\ e.isFile
    /\ visited' = visited \cup {e.path}
    /\ archive' = Append(archive, [name |-> RelativeTo(e.path, src_dir), data |-> e.data])
    /\ UNCHANGED <<disk, zip_path, zpc, zipFixed>>

\* lines 579 and 583: rglob is exhausted, the archive is closed and its path
\* returned
ZipClose ==
    /\ zpc = "open"
    /\ \A e \in Rglob : e.path \in visited
    /\ zpc' = "closed"
    /\ UNCHANGED <<disk, zip_path, visited, archive, zipFixed>>

NextZip ==
    \/ \E e \in DiskEntries : ZipSkip(e)
    \/ \E e \in DiskEntries : ZipWrite(e)
    \/ ZipClose

SpecZip == ZipInit /\ [][NextZip]_vars

\* ---- the shared thumbnail: _find_cover_image, lines 626-637, and its use
\* in _send_files_from_dir, lines 1074-1079 --------------------------------
\* A file of the workspace is a record of the directory it is in ("" for the
\* workspace itself), the stem and the extension of its name, and its size.
ImageSizes == {1, 2}

\* the file names the workspaces of the model are made of: image files with
\* a conventional stem in the case of the code's patterns and in another
\* case, at the top and in a directory, and files that are none of these
NameUniverse ==
    { [dir |-> "",      stem |-> "cover",   ext |-> "jpg"],
      [dir |-> "",      stem |-> "Cover",   ext |-> "jpg"],
      [dir |-> "",      stem |-> "front",   ext |-> "PNG"],
      [dir |-> "",      stem |-> "booklet", ext |-> "png"],
      [dir |-> "",      stem |-> "cover",   ext |-> "txt"],
      [dir |-> "album", stem |-> "cover",   ext |-> "jpg"] }

Sized(n, sz) == [dir |-> n.dir, stem |-> n.stem, ext |-> n.ext, size |-> sz]

\* a workspace: a set of files with distinct names
TreesOfFiles ==
    LET pick == [NameUniverse -> ImageSizes \cup {0}]
    IN  { {Sized(n, p[n]) : n \in {m \in NameUniverse : p[m] # 0}} : p \in pick }

\* str.lower() on the stems and extensions of the model
Lower(s) ==
    CASE s = "Cover" -> "cover"
      [] s = "PNG"   -> "png"
      [] OTHER       -> s

\* line 628: the stems globbed for, in this order
CoverPatterns == <<"cover", "folder", "artwork", "Artwork", "Front", "front">>

\* lines 630, 633: p.suffix.lower() in {".jpg", ".jpeg", ".png"}
IsImage(f) == Lower(f.ext) \in {"jpg", "jpeg", "png"}

\* line 629: root.glob(f"{name}.*"): the children of root itself whose name
\* is the pattern's stem, compared as written, followed by an extension
Glob(t, name) == {f \in t : f.dir = "" /\ f.stem = name}

\* lines 627-637: the files _find_cover_image can return ({NoFile} for
\* None): an image among the matches of the first pattern that has one (the
\* order inside one glob is the directory's); else an image of the greatest
\* size anywhere in the tree; else None
FindCoverImage(t) ==
    LET hits(i) == {f \in Glob(t, CoverPatterns[i]) : IsImage(f)}
        found == {i \in DOMAIN CoverPatterns : hits(i) # {}}
        imgs == {f \in t : IsImage(f)}
    IN  IF found # {}
        THEN hits(CHOOSE i \in found : \A j \in found : i <= j)
        ELSE IF imgs = {} THEN {NoFile}
        ELSE {f \in imgs : \A g \in imgs : g.size <= f.size}

\* line 1069-1073: the workspace has files, _send_files_from_dir goes on
CoverInit ==
    /\ SessInit /\ CONCURRENCY = 1 /\ sessions = {}
    /\ StreamIdle /\ JobIdle /\ ChunkIdle /\ LockIdle
    /\ SweepIdle /\ TailIdle /\ DbIdle /\ ZipIdle /\ FlowIdle
    /\ tree \in TreesOfFiles
    /\ poster_url \in BOOLEAN
    /\ shared_thumb_path = NoFile /\ thumb_bytes_cache = "none" /\ kpc = "new"

coverFixed == <<sessVars, streamVars, jobVars, chunkVars, lockVars, sweepVars, tailVars,
                dbVars, zipVars, flowVars>>

\* line 1074: shared_thumb_path = _find_cover_image(out_dir)
FindCover ==
    /\ kpc = "new"
    /\ shared_thumb_path' \in FindCoverImage(tree)
    /\ kpc' = "found"
    /\ UNCHANGED <<tree, poster_url, thumb_bytes_cache, coverFixed>>

\* lines 1075-1079 and 639-646: without a cover file the poster URL of the
\* session, if any, is downloaded; a failed download gives None
FetchPoster(res) ==
    /\ kpc = "found"
    /\ thumb_bytes_cache' =
          IF shared_thumb_path = NoFile /\ poster_url THEN res ELSE "none"
    /\ kpc' = "done"
    /\ UNCHANGED <<tree, poster_url, shared_thumb_path, coverFixed>>

NextCover ==
    \/ FindCover
    \/ \E res \in {"bytes", "failed"} : FetchPoster(res)

SpecCover == CoverInit /\ [][NextCover]_vars

\* ---- start handlers and OUTPUT_ROOT: lines 923-979, 576-583, 490-493 ----
\* Every token has a session and an accepted start action whose handler is
\* at `async with DOWNLOAD_SEMAPHORE` (line 923).  An action is one segment
\* of the handler between two awaits.  The periodic cleanup_job runs on the
\* same event loop, between any two segments; cleanup_temp_dirs is one call.
FlowBasenames == {"Artist - Album", "download"}
\* the wall clock advances by an hour or by an hour more than a day
TickHours == {1, 25}

\* positions inside `async with DOWNLOAD_SEMAPHORE` (lines 923-958)
FlowGuarded == {"run", "zip", "zipping", "sending", "deliver", "clear"}

\* lines 577-578: the archive of a job is OUTPUT_ROOT / (zip_base + ".zip"):
\* the parent of every workspace is OUTPUT_ROOT
ArchivePath(t) == zip_base[t]

\* what cleanup_temp_dirs reads of a workspace and of an archive file
WorkspaceEntry(t) == [isDir |-> TRUE, prefixed |-> TRUE, mtime |-> wsMtime[t]]
ArchiveEntry(p) == [isDir |-> FALSE, prefixed |-> p, mtime |-> 0]

Did(t, what) == [events EXCEPT ![t] = @ \o what]

FlowInit ==
    /\ SessInit /\ sessions = Tokens
    /\ StreamIdle /\ JobIdle /\ ChunkIdle /\ LockIdle
    /\ SweepIdle /\ TailIdle /\ DbIdle /\ ZipIdle /\ CoverIdle
    /\ fpc = [t \in Tokens |-> "wait"]
    /\ fmode \in [Tokens -> Modes]
    /\ zip_base \in [Tokens -> FlowBasenames]
    /\ workspace = [t \in Tokens |-> "none"] /\ wsMtime = [t \in Tokens |-> 0]
    /\ outputFiles = {} /\ dclock = Now /\ ticks = 0
    /\ events = [t \in Tokens |-> <<>>]

flowFixed == <<CONCURRENCY, sessOther, streamVars, jobVars, chunkVars, lockVars,
               sweepVars, tailVars, dbVars, zipVars, coverVars>>

\* line 923: no slot is free: acquire() suspends the handler until a
\* release wakes it
FlowSuspend(t) ==
    /\ fpc[t] = "wait"
    /\ ~SlotFree
    /\ events' = Did(t, <<"suspended">>)
    /\ fpc' = [fpc EXCEPT ![t] = "suspended"]
    /\ UNCHANGED <<DOWNLOAD_SEMAPHORE, sessions, fmode, zip_base, workspace, wsMtime,
                   outputFiles, dclock, ticks, flowFixed>>

\* lines 923-927: a free slot is taken (at once, or by a handler that was
\* suspended), mkdtemp creates the workspace in OUTPUT_ROOT and
\* _run_gamdl_stream starts the subprocess
FlowAcquire(t) ==
    /\ fpc[t] \in {"wait", "suspended"}
    /\ SlotFree
    /\ DOWNLOAD_SEMAPHORE' = DOWNLOAD_SEMAPHORE - 1
    /\ workspace' = [workspace EXCEPT ![t] = "exists"]
    /\ wsMtime' = [wsMtime EXCEPT ![t] = dclock]
    /\ events' = Did(t, <<"slot_acquired", "workspace_created">>)
    /\ fpc' = [fpc EXCEPT ![t] = "run"]
    /\ UNCHANGED <<sessions, fmode, zip_base, outputFiles, dclock, ticks, flowFixed>>

\* the subprocess creates a file or a directory in the workspace, which sets
\* the st_mtime of the workspace directory
FlowJobWrites(t) ==
    /\ fpc[t] = "run"
    /\ workspace[t] = "exists"
    /\ wsMtime[t] # dclock
    /\ wsMtime' = [wsMtime EXCEPT ![t] = dclock]
    /\ UNCHANGED <<DOWNLOAD_SEMAPHORE, sessions, fpc, fmode, zip_base, workspace,
                   outputFiles, dclock, ticks, events, flowFixed>>

\* lines 927-940, 952: _run_gamdl_stream returns; after a non-zero exit the
\* failure text is put in the status message, else the uploading text
FlowJobExit(t, rc) ==
    /\ fpc[t] = "run"
    /\ IF rc # 0
       THEN /\ events' = Did(t, <<"job_run", "failure_notice">>)
            /\ fpc' = [fpc EXCEPT ![t] = "clear"]
       ELSE /\ events' = Did(t, <<"job_run">>)
            /\ fpc' = [fpc EXCEPT ![t] = IF fmode[t] = "zip" THEN "zip" ELSE "deliver"]
    /\ UNCHANGED <<DOWNLOAD_SEMAPHORE, sessions, fmode, zip_base, workspace, wsMtime,
                   outputFiles, dclock, ticks, flowFixed>>

\* lines 941-943 and 577-579: _zip_directory is handed to the executor; its
\* thread creates, or truncates, the archive file
FlowZipBegin(t) ==
    /\ fpc[t] = "zip"
    /\ outputFiles' = outputFiles \cup {ArchivePath(t)}
    /\ fpc' = [fpc EXCEPT ![t] = "zipping"]
    /\ UNCHANGED <<DOWNLOAD_SEMAPHORE, sessions, fmode, zip_base, workspace, wsMtime,
                   dclock, ticks, events, flowFixed>>

\* lines 943-949: the archive is written; at the size ceiling the per-file
\* delivery is taken, else the archive is opened and send_document awaited
FlowZipDone(t, big) ==
    /\ fpc[t] = "zipping"
    /\ fpc' = [fpc EXCEPT ![t] = IF big THEN "deliver" ELSE "sending"]
    /\ UNCHANGED <<DOWNLOAD_SEMAPHORE, sessions, fmode, zip_base, workspace, wsMtime,
                   outputFiles, dclock, ticks, events, flowFixed>>

\* lines 946, 949-950, 953: the delivery calls return
FlowDelivered(t) ==
    /\ fpc[t] \in {"sending", "deliver"}
    /\ events' = Did(t, <<"delivered">>)
    /\ fpc' = [fpc EXCEPT ![t] = "clear"]
    /\ UNCHANGED <<DOWNLOAD_SEMAPHORE, sessions, fmode, zip_base, workspace, wsMtime,
                   outputFiles, dclock, ticks, flowFixed>>

\* the same end of the handler with the slot released while the workspace
\* is still there
FlowClearEarlyRelease(t) ==
    /\ fpc[t] = "clear"
    /\ workspace' = [workspace EXCEPT ![t] = IF @ = "exists" THEN "deleted" ELSE @]
    /\ DOWNLOAD_SEMAPHORE' = DOWNLOAD_SEMAPHORE + 1
    /\ sessions' = sessions \ {t}
    /\ events' = Did(t, <<"status_cleared", "slot_released", "workspace_deleted",
                          "session_removed">>)
    /\ fpc' = [fpc EXCEPT ![t] = "end"]
    /\ UNCHANGED <<fmode, zip_base, wsMtime, outputFiles, dclock, ticks, flowFixed>>

\* lines 958-979: _clear_status_message returns; the TemporaryDirectory
\* block is left (the workspace is removed), then the semaphore block (the
\* slot is released), the attempt is logged and the session is popped
FlowClear(t) ==
    /\ fpc[t] = "clear"
    /\ workspace' = [workspace EXCEPT ![t] = IF @ = "exists" THEN "deleted" ELSE @]
    /\ DOWNLOAD_SEMAPHORE' = DOWNLOAD_SEMAPHORE + 1
    /\ sessions' = sessions \ {t}
    /\ events' = Did(t, <<"status_cleared", "workspace_deleted", "slot_released",
                          "session_removed">>)
    /\ fpc' = [fpc EXCEPT ![t] = "end"]
    /\ UNCHANGED <<fmode, zip_base, wsMtime, outputFiles, dclock, ticks, flowFixed>>

\* the same as FlowRaise with the slot kept
FlowRaiseKeepSlot(t) ==
    /\ fpc[t] \in FlowGuarded
    /\ workspace' = [workspace EXCEPT ![t] = IF @ = "exists" THEN "deleted" ELSE @]
    /\ events' = Did(t, <<"raised", "workspace_deleted", "slot_released">>)
    /\ fpc' = [fpc EXCEPT ![t] = "raised"]
    /\ UNCHANGED <<DOWNLOAD_SEMAPHORE, sessions, fmode, zip_base, wsMtime, outputFiles,
                   dclock, ticks, flowFixed>>

\* lines 923-924: an awaited call of the guarded section raises: the two
\* with-blocks are left in the same order, nothing after them runs
FlowRaise(t) ==
    /\ fpc[t] \in FlowGuarded
    /\ workspace' = [workspace EXCEPT ![t] = IF @ = "exists" THEN "deleted" ELSE @]
    /\ DOWNLOAD_SEMAPHORE' = DOWNLOAD_SEMAPHORE + 1
    /\ events' = Did(t, <<"raised", "workspace_deleted", "slot_released">>)
    /\ fpc' = [fpc EXCEPT ![t] = "raised"]
    /\ UNCHANGED <<sessions, fmode, zip_base, wsMtime, outputFiles, dclock, ticks,
                   flowFixed>>

\* time passes
FlowTick(d) ==
    /\ ticks < MaxTicks
    /\ ticks' = ticks + 1
    /\ dclock' = dclock + d * SecondsPerHour
    /\ UNCHANGED <<DOWNLOAD_SEMAPHORE, sessions, fpc, fmode, zip_base, workspace, wsMtime,
                   outputFiles, events, flowFixed>>

\* lines 490-493 and 470-488: cleanup_job calls cleanup_temp_dirs on
\* OUTPUT_ROOT with the prefix of the workspaces and TEMP_TTL_HOURS; the
\* archives are files and fail the first test of the loop
FlowSweep ==
    LET c == dclock - TEMP_TTL_HOURS * SecondsPerHour
    IN  /\ \E t \in Tokens : workspace[t] = "exists" /\ Candidate(WorkspaceEntry(t), c)
        /\ workspace' = [t \in Tokens |->
                            IF workspace[t] = "exists" /\ Candidate(WorkspaceEntry(t), c)
                            THEN "swept" ELSE workspace[t]]
        /\ outputFiles' = {f \in outputFiles : ~Candidate(ArchiveEntry(FALSE), c)}
        /\ UNCHANGED <<DOWNLOAD_SEMAPHORE, sessions, fpc, fmode, zip_base, wsMtime,
                       dclock, ticks, events, flowFixed>>

NextFlow ==
    \/ \E t \in Tokens : FlowSuspend(t)
    \/ \E t \in Tokens : FlowAcquire(t)
    \/ \E t \in Tokens : FlowJobWrites(t)
    \/ \E t \in Tokens, rc \in {0, 1} : FlowJobExit(t, rc)
    \/ \E t \in Tokens : FlowZipBegin(t)
    \/ \E t \in Tokens, big \in BOOLEAN : FlowZipDone(t, big)
    \/ \E t \in Tokens : FlowDelivered(t)
    \/ \E t \in Tokens : FlowClear(t)
    \/ \E t \in Tokens : FlowRaise(t)
    \/ \E d \in TickHours : FlowTick(d)
    \/ FlowSweep

SpecFlow == FlowInit /\ [][NextFlow]_vars

\* ---- the start handlers under a fair event loop -------------------------
\* the segments of the handler of t that follow when the awaited call
\* returns: the slot, the exit of the subprocess, the archive, the delivery
\* and the status calls
HandlerStep(t) ==
    \/ FlowSuspend(t)
    \/ FlowAcquire(t)
    \/ \E rc \in {0, 1} : FlowJobExit(t, rc)
    \/ FlowZipBegin(t)
    \/ \E big \in BOOLEAN : FlowZipDone(t, big)
    \/ FlowDelivered(t)
    \/ FlowClear(t)

\* the event loop runs every handler whose awaited call has returned; every
\* subprocess exits and every call of the Bot API returns or raises
SpecFlowLive == FlowInit /\ [][NextFlow]_vars /\ \A t \in Tokens : WF_vars(HandlerStep(t))

\* ======================== claims =========================================

C2_OneLaunchPerToken == \A t \in Tokens : launches[t] <= 1

C4_LimiterCap == Cardinality({h \in Handlers : InGuarded(h)}) <= CONCURRENCY

\* the section is full with the job of one session while the start handler of
\* another session waits for a slot
C4_Witness ==
    \E h1, h2 \in Handlers :
        /\ hd[h1].token # hd[h2].token
        /\ InGuarded(h1) /\ hd[h2].pc = "go_sem"
        /\ Cardinality({h \in Handlers : InGuarded(h)}) = CONCURRENCY

\* C5: every slot taken is released exactly once on every exit path: the free
\* slots and the handlers inside the guarded section always add up to the
\* capacity, so that all slots are free once the handlers have ended.
C5_SlotsAccounted ==
    DOWNLOAD_SEMAPHORE + Cardinality({h \in Handlers : InGuarded(h)}) = CONCURRENCY

\* the only start handler launched its job and left the guarded section by an
\* exception; every handler has ended and every slot is free
C5_Witness ==
    /\ \E h \in Handlers :
          /\ hd[h].kind = "go" /\ hd[h].pc = "raised" /\ launches[hd[h].token] = 1
          /\ \A g \in Handlers \ {h} : hd[g].kind # "go"
    /\ \A h \in Handlers : Ended(h)
    /\ DOWNLOAD_SEMAPHORE = CONCURRENCY

\* C6: once a job has been started for a token, the token is absent from the
\* store when the start handler ends, on every exit path.
C6_SessionGoneAtEnd ==
    \A h \in Handlers :
        (hd[h].kind = "go" /\ hd[h].found /\ Ended(h)) => hd[h].token \notin sessions

C9_NoWriteAfterRemoval == staleWrites = {}

\* C10: within one job execution, any two consecutive progress updates passed
\* to the callback are at least the throttle interval apart.
C10_UpdatesSpaced ==
    \A i \in 1..(Len(admitted) - 1) : admitted[i + 1] - admitted[i] >= ThrottleInterval

\* two updates were passed on and at least one line in between was dropped
C10_Witness == Len(admitted) >= 2 /\ rejected >= 1

\* C11: the first call of _Throttle.ok() after the throttle is created returns
\* true whatever the monotonic clock shows: the first line read is passed on.
C11_FirstAdmitted == nlines = 1 => (rejected = 0 /\ Len(admitted) = 1)

\* C12: in per-file delivery no file at or above the size ceiling, of any
\* kind, is handed to a transfer call, be it a grouped upload or a single send.
C12_NoLargeTransfer == \A f \in tried : SizeOf(f) < MAX_TELEGRAM_FILE_KIB

\* C13: an error of any kind raised for one file or one batch during per-file
\* delivery is caught, so that the delivery never ends by that exception.
C13_DeliveryErrorsCaught == raisedAt \notin {"group", "other_action"}

C15_ArchiveOrFiles ==
    /\ archives <= 1
    /\ (send_zip /\ zipSize # 0 /\ zipSize >= MAX_TELEGRAM_FILE_KIB) => archives = 0
    /\ (send_zip /\ zipSize # 0 /\ zipSize < MAX_TELEGRAM_FILE_KIB) => ~filesRun
    /\ (send_zip /\ returncode = 0 /\ jpc \in {"clear", "end"})
          => IF zipSize < MAX_TELEGRAM_FILE_KIB THEN archives = 1 ELSE filesRun

\* the archive is exactly at the ceiling: it was not sent, the files were
C15_Witness ==
    /\ send_zip /\ jpc = "end" /\ zipSize = MAX_TELEGRAM_FILE_KIB
    /\ archives = 0 /\ filesRun /\ transferred

\* C16: when a per-file delivery is over, "done" was sent once if a transfer
\* succeeded and not at all otherwise; for an empty workspace one "no files"
\* notice was sent, nothing was transferred and no "done" was sent.
C16_DoneOnce ==
    (filesRun /\ jpc \in {"clear", "end", "raised"})
        => /\ dones = IF transferred THEN 1 ELSE 0
           /\ (audio_files = <<>> /\ video_files = <<>> /\ other_files = <<>>)
                 => (noFiles = 1 /\ tried = {} /\ dones = 0)

\* calls that upload something
UploadCalls ==
    Cardinality(groups) + Cardinality(singles)
        + Cardinality({f \in tried : f[1] # "audio"}) + archives

\* C18: mode "files", exit code 0, one audio file in the workspace and an
\* upload the chat accepts: when the handler ends it has made one upload
\* call, has sent one "done" notice after it, and the token is out of the store.
C18_OneAudioEndToEnd ==
    /\ (~send_zip /\ dones > 0) => jpc \in {"clear", "end", "raised"}
    /\ ( /\ jpc = "end" /\ ~send_zip /\ returncode = 0
         /\ Len(audio_files) = 1 /\ video_files = <<>> /\ other_files = <<>>
         /\ refused = {} )
          => (UploadCalls = 1 /\ groups = {1} /\ dones = 1 /\ JobToken \notin sessions)

\* such a handler has ended
C18_Witness ==
    /\ jpc = "end" /\ ~send_zip /\ returncode = 0
    /\ Len(audio_files) = 1 /\ video_files = <<>> /\ other_files = <<>>
    /\ refused = {} /\ tried = {<<"audio", 1>>} /\ dones = 1

\* the last TailShow of the lines read
CapturedTail ==
    LET k == IF nlines < TailShow THEN nlines ELSE TailShow
    IN  [i \in 1..k |-> nlines - k + i]

RECURSIVE Concat(_)
Concat(ss) == IF ss = <<>> THEN <<>> ELSE Head(ss) \o Concat(Tail(ss))

\* C17: _chunked with size 10 yields batches of 1 to 10 files, all but the
\* last of exactly 10, whose concatenation is the input list; an empty list
\* yields no batch.
C17_ChunksPartition ==
    cpc = "done" =>
        /\ \A i \in 1..Len(yielded) : Len(yielded[i]) \in 1..ChunkSize
        /\ \A i \in 1..(Len(yielded) - 1) : Len(yielded[i]) = ChunkSize
        /\ Concat(yielded) = it
        /\ (it = <<>> => yielded = <<>>)

\* a list that gives two full batches and a shorter third one
C17_Witness ==
    /\ cpc = "done" /\ Len(yielded) = 3
    /\ Len(yielded[3]) < ChunkSize /\ Concat(yielded) = it

\* C20: at most one process is inside the single_instance_lock scope at any
\* time; a flock attempted while another process holds the lock ends at once
\* in failure and leaves the lock with its holder; and a process whose
\* acquisition failed has done no serving step (cleanup, handlers, polling).
C20_SingleInstance ==
    [][ /\ \A p, q \in Procs : (p # q) => ~(InScope(p)' /\ InScope(q)')
        /\ \A p \in Procs : InScope(p)' => holder' = p
        /\ \A p \in Procs :
              (ppc[p] = "opened" /\ ppc'[p] # "opened" /\ holder \notin {0, p})
                  => (ppc'[p] \in {"failing", "killed"} /\ holder' = holder)
        /\ \A p \in Procs : ppc'[p] \in {"failing", "aborted"} => served'[p] = {}
      ]_vars

\* one process is polling inside the scope while the other, started after
\* it, has failed to get the lock and ended
C20_Witness ==
    \E p, q \in Procs :
        /\ p # q /\ ppc[p] = "polling" /\ holder = p
        /\ ppc[q] = "aborted" /\ served[q] = {}

\* C21: the host lock is free once its holder has left the scope of
\* single_instance_lock, by the end of the with-block (return or exception)
\* or by the death of the process: no stopped process holds the lock, an
\* attempt made while the lock is free gets it, and the ending of a process
\* whose attempt failed leaves the lock with its holder.
C21_LockFreedOnExit ==
    [][ /\ \A p \in Procs : Stopped(p)' => holder' # p
        /\ \A p \in Procs :
              (ppc[p] = "opened" /\ ppc'[p] \notin {"opened", "killed"} /\ holder = 0)
                  => (ppc'[p] = "locked" /\ holder' = p)
        /\ \A p \in Procs :
              (ppc[p] = "failing" /\ ppc'[p] # "failing") => holder' = holder
      ]_vars

\* one process has left the scope it was in, and the other one holds the
\* lock and has written its pid into the file
C21_Witness ==
    \E p, q \in Procs :
        /\ p # q /\ ppc[p] = "exited"
        /\ ppc[q] = "locked" /\ holder = q /\ lockFile = q

\* the children of base that pass the three tests of the loop
Candidates == {i \in DOMAIN entries : Candidate(entries[i], cutoff)}

\* C22: when cleanup_temp_dirs returns, the children gone from base are the
\* directories whose name has the prefix and whose mtime is strictly before
\* now minus ttl, less those whose rmtree raised; every other child (younger
\* or exactly at the cutoff, without the prefix, not a directory) is still
\* there and no removal was attempted on it.
C22_SweepRemovesExpired ==
    wpc = "returned" =>
        /\ (DOMAIN entries) \ inBase = Candidates \ failed
        /\ \A i \in DOMAIN entries :
              (~entries[i].isDir \/ ~entries[i].prefixed \/ entries[i].mtime >= cutoff)
                  => (i \in inBase /\ i \notin attempts)
        /\ (failed = {}) =>
              \A i \in DOMAIN entries :
                  i \notin inBase <=> /\ entries[i].isDir
                                      /\ entries[i].prefixed
                                      /\ entries[i].mtime < cutoff

\* prefixed directories aged 1h, 25h and 48h swept with a 24h window: the
\* first is left, the other two are gone
C22_Witness ==
    /\ wpc = "returned"
    /\ cutoff = Now - 24 * SecondsPerHour
    /\ Len(entries) = 3
    /\ \A i \in 1..3 : entries[i].isDir /\ entries[i].prefixed
    /\ entries[1].mtime = Now - 1 * SecondsPerHour
    /\ entries[2].mtime = Now - 25 * SecondsPerHour
    /\ entries[3].mtime = Now - 48 * SecondsPerHour
    /\ inBase = {1}

\* C23: a removal that fails does not end the sweep: when cleanup_temp_dirs
\* returns, rmtree was called on every candidate, removed + errors is the
\* number of candidates and errors is the number of removals that raised.
C23_SweepSurvivesFailures ==
    wpc = "returned" =>
        /\ wpos = Len(entries)
        /\ attempts = Candidates
        /\ removed + errors = Cardinality(Candidates)
        /\ errors = Cardinality(failed)
        /\ removed = Cardinality(Candidates \ inBase)

\* the sweep has returned; one removal failed and a candidate that came
\* after it in the listing was removed
C23_Witness ==
    /\ wpc = "returned"
    /\ \E i \in failed : \E j \in Candidates : j > i /\ j \notin inBase

\* the last k lines of the n lines written so far (line i is the atom i)
LastWritten(k) ==
    LET n == Len(outLines)
        m == IF n < k THEN n ELSE k
    IN  [i \in 1..m |-> n - m + i]

\* C24: after n lines the rolling tail is the last min(n, 50) of them in the
\* order of arrival, never more than 50, and the text returned with the exit
\* code is made of the last min(n, 10) lines in that order.
C24_RollingTail ==
    /\ Len(buf_tail) <= TailKeep
    /\ Len(buf_tail) = (IF Len(outLines) < 50 THEN Len(outLines) ELSE 50)
    /\ buf_tail = LastWritten(50)
    /\ tpc = "returned" =>
          /\ Len(result.tail) = (IF Len(outLines) < 10 THEN Len(outLines) ELSE 10)
          /\ result.tail = LastWritten(10)

\* the function has returned after more than 50 lines: the tail had been cut
C24_Witness ==
    /\ tpc = "returned"
    /\ Len(outLines) > TailKeep
    /\ Len(buf_tail) = TailKeep
    /\ buf_tail[1] = Len(outLines) - TailKeep + 1

C26_BadRequestSwallowed ==
    \A h \in Handlers : hd[h].pc = "raised" => hd[h].kind = "go"

C28_SameFlowWithoutDb ==
    [][ /\ dbUrl = "none" => /\ tables' = FALSE /\ users' = {} /\ downloads' = {}
                     /\ swallowed' = 0
        /\ \A t \in Tokens :
              (dpc[t] = "log" /\ dpc'[t] # "log")
                  => /\ dpc'[t] = "end"
                     /\ sessions' = sessions \ {t}
                     /\ lateNotices' = lateNotices
        /\ \A t \in Tokens : dpc'[t] = "end" => t \notin sessions'
      ]_vars

\* with a database, one start handler ended after its row was written and
\* another after add_download_log raised; both tokens are out of the store
C28_Witness ==
    /\ dbUrl # "none"
    /\ \E t, u \in Tokens :
          /\ dpc[t] = "end" /\ t \in downloads
          /\ dpc[u] = "end" /\ u \notin downloads
    /\ swallowed > 0
    /\ sessions = {}

\* the files an unpacking of the archive into the directory dest creates
Unpacked(dest) ==
    {File(dest \o archive[i].name, archive[i].data) : i \in 1..Len(archive)}

\* C29: the closed archive has one entry per regular file of the workspace,
\* named by the path relative to the workspace and holding its content, and
\* no other entry (no directory, not the archive itself): unpacking it into
\* the workspace directory gives back exactly the files of the workspace.
C29_ArchiveRoundTrip ==
    zpc = "closed" =>
        LET files == {e \in disk : e.isFile /\ IsUnder(e.path, src_dir)}
        IN  /\ Len(archive) = Cardinality(files)
            /\ \A e \in files :
                  \E i \in 1..Len(archive) :
                      /\ src_dir \o archive[i].name = e.path
                      /\ archive[i].data = e.data
            /\ \A i, j \in 1..Len(archive) :
                  archive[i].name = archive[j].name => i = j
            /\ \A i \in 1..Len(archive) : src_dir \o archive[i].name # zip_path
            /\ Unpacked(src_dir) = files

\* a closed archive of a workspace with a file at the top and a file in a
\* directory
C29_Witness ==
    /\ zpc = "closed"
    /\ Len(archive) = 2
    /\ \E i, j \in 1..2 : Len(archive[i].name) = 1 /\ Len(archive[j].name) = 2

\* an image file of the workspace directory whose stem is one of the four
\* conventional names, whatever its case
Conventional(f) ==
    /\ f.dir = ""
    /\ Lower(f.stem) \in {"cover", "folder", "artwork", "front"}
    /\ Lower(f.ext) \in {"jpg", "jpeg", "png"}

\* C30: the shared thumbnail is an image file with a conventional stem
\* (cover, folder, artwork, front, in any case) whenever the workspace has
\* one; otherwise an image file of the greatest size in the tree; otherwise
\* none, and the poster URL is fetched exactly when there is none (and the
\* session has a poster URL).
C30_CoverChoice ==
    kpc \in {"found", "done"} =>
        LET imgs == {f \in tree : Lower(f.ext) \in {"jpg", "jpeg", "png"}}
        IN  /\ (\E f \in tree : Conventional(f))
                  => (shared_thumb_path \in tree /\ Conventional(shared_thumb_path))
            /\ ((~\E f \in tree : Conventional(f)) /\ imgs # {})
                  => (shared_thumb_path \in imgs
                      /\ \A g \in imgs : g.size <= shared_thumb_path.size)
            /\ imgs = {} => shared_thumb_path = NoFile
            /\ kpc = "done" =>
                  ((thumb_bytes_cache # "none") <=> (shared_thumb_path = NoFile /\ poster_url))

\* ---- C31 ----
Happened(t) == SelectSeq(events[t], LAMBDA e : e # "suspended")

FlowOrder(t) ==
    <<"slot_acquired", "workspace_created", "job_run">>
    \o (IF \E i \in 1..Len(events[t]) : events[t][i] = "failure_notice"
        THEN <<"failure_notice">> ELSE <<"delivered">>)
    \o <<"status_cleared", "workspace_deleted", "slot_released", "session_removed">>

Position(t, e) == CHOOSE i \in 1..Len(events[t]) : events[t][i] = e

\* C31: a start handler that ended without an exception went through slot
\* acquired, workspace created, job run, delivery or failure notice, status
\* cleared, workspace deleted, slot released, session removed, in this order;
\* a handler that is delivering holds a slot; on every way out of the guarded
\* section the workspace is deleted, and that before the slot is released.
C31_FlowOrder ==
    /\ \A t \in Tokens : fpc[t] = "end" => Happened(t) = FlowOrder(t) /\ t \notin sessions
    /\ CONCURRENCY - DOWNLOAD_SEMAPHORE = Cardinality({t \in Tokens : fpc[t] \in FlowGuarded})
    /\ \A t \in Tokens : fpc[t] \in {"end", "raised"} =>
          /\ workspace[t] # "exists"
          /\ Position(t, "workspace_deleted") < Position(t, "slot_released")

C31_Witness ==
    \E t, u \in Tokens :
        /\ fpc[t] = "end" /\ Happened(t)[4] = "delivered" /\ workspace[t] = "deleted"
        /\ fpc[u] = "raised" /\ workspace[u] = "deleted"

\* ---- C32 ----
\* C32: after the start handler of a job with a non-zero exit code has
\* ended, the status message that showed the failure text and the captured
\* tail still exists: the cleanup of the status message did not delete it.
C32_FailureNoticeStays ==
    (jpc = "end" /\ returncode \notin {-1, 0} /\ failNotice.state = "shown")
        => statusText = "failed"

\* ---- C33 ----
\* the handler's archive file is being written by _zip_directory or read by
\* send_document
UsesArchive(t) == fpc[t] \in {"zipping", "sending"}

BuiltArchive(t) ==
    /\ fmode[t] = "zip"
    /\ \E i \in 1..Len(events[t]) : events[t][i] = "delivered"

\* C34: after the start handler of an archive-mode job has ended, its
\* workspace and its archive file are gone from the output root, or the
\* archive is one that a later cleanup sweep removes.
C34_NoArtifactLeft ==
    \A t \in Tokens :
        (fpc[t] = "end" /\ BuiltArchive(t)) =>
            /\ workspace[t] # "exists"
            /\ \/ ArchivePath(t) \notin outputFiles
               \/ \E p \in BOOLEAN, c \in {dclock, Now + 1000 * SecondsPerHour} :
                     Candidate(ArchiveEntry(p), c)

\* ---- C35 ----
\* C35: a cleanup sweep never removes the workspace of a job that is still
\* running or being delivered, whatever the duration of the job.
C35_SweepSparesLiveWorkspace ==
    \A t \in Tokens : fpc[t] \in FlowGuarded => workspace[t] # "swept"

====
